---- MODULE Spec2Model ----
(***************************************************************************)
(* alTrace: a recorder that wraps every OpenAL entry point and writes a    *)
(* binary event log (altrace_record.c), and a player that reads the log    *)
(* back and hands typed events to a visitor (altrace_playback.c).          *)
(*                                                                         *)
(* The module holds several specifications over one set of variables:      *)
(*   SpecLock   threads calling wrapped entry points under the API mutex   *)
(*   SpecCodec  the byte codec: events written by the recorder, then read  *)
(*              by process_tracelog                                        *)
(*   Spec       the object registry: devices, contexts, error latches      *)
(*   SpecSrc    sources, the playlist and the polling pass                 *)
(*   SpecTwo    the same with two contexts                                 *)
(*   SpecSyms, SpecPlay, SpecLabel   the player: symbols, any file, labels *)
(*   SpecQuit   shutdown, fatal paths and the log descriptor               *)
(*   SpecRace   wrappers that read current_context before the mutex        *)
(*   SpecClock  the timestamps of the event headers                        *)
(*   SpecString strings through the recorder and the player                *)
(*   SpecName   the name of the trace file                                 *)
(*   SpecDetect the state-change detector of one source                    *)
(*   SpecBucket the hash buckets of the buffer wrappers of a device        *)
(*   SpecScope  the trace scope the player hands to the visitors           *)
(*   SpecAgain  process_tracelog called twice in one process               *)
(* Each specification leaves the variables of the others at their initial  *)
(* values.                                                                 *)
(***************************************************************************)
EXTENDS Integers, Sequences, FiniteSets, TLC

(***************************************************************************)
(* Bounds of the model.                                                    *)
(***************************************************************************)
NThreads == 2
MaxCalls == 3
MaxEvents == 2
MaxFrames == 1
MaxFiles == 3
MaxChecks == 3
MaxBufferOps == 4
MaxScopeEvents == 5

VARIABLES
    \* ---- SpecLock: altrace_record.c, threads and the API mutex
    apilock,     \* owner of _apilock: 0 when free, else the thread id
    tpc,         \* tpc[t]: where thread t is inside its wrapped call
    tep,         \* tep[t]: the entry point thread t is executing
    tseq,        \* tseq[t]: number of the call thread t is executing
    ncalls,      \* wrapped calls started so far
    wlog,        \* the writes that reached logfd, in order, as runs: <<t, seq>>
    \* ---- SpecCodec: the trace file, its recorder and its player
    trace,       \* the bytes of the trace file
    rec_open,    \* recorder: logfd != -1
    nevents,     \* recorder: events written so far (calls and synthetic events)
    recorded,    \* the visitor-visible events the recorder serialized, in order
    rec_frames,  \* recorder: the stack frames in its stackframe map
    pstate,      \* player: "off", "loop" (inside process_tracelog's loop) or "done"
    rpos,        \* player: the read offset of logfd
    io_failure,  \* player: the latched IO failure
    visited,     \* the visitor callbacks made so far, eos excluded
    eos_calls,   \* the eos callbacks made so far: <<clean, ticks>>
    progress,    \* the calls of the visitor's progress hook so far:
                 \* <<fdoffset, what the hook returned>>
    retval,      \* what process_tracelog returned
    threadids,   \* player: the thread-id map, raw id -> dense id, as pairs
    next_mapped_threadid,
    symframes,   \* player: the stack frames in its stackframe map
    labelmaps,   \* player: the four label maps, by kind of identity
    label_visits,\* the visitor callbacks of SpecLabel so far, each with the
                 \* labels the visitor finds for the identities of its event
    \* ---- Spec, SpecSrc: the shadow registry and the real library
    devs,        \* the DeviceWrappers, null_device among them, by address
    ctxs,        \* the ContextWrappers by address
    srcs,        \* the SourceWrappers by <<context, name>>
    current_context,
    null_context_errorlatch,
    real,        \* the state of the real OpenAL library
    events,      \* the events the latest wrapped call has written after its return values
    polled,      \* the names the latest polling pass has polled, in order
    pass,        \* where check_al_async_states stands: the source it polls next
    last,        \* the latest wrapped call: what it returned and what it recorded
    nops,        \* wrapped calls made so far
    \* ---- SpecQuit: the recorder's shutdown paths
    thr,         \* thr[t]: where thread t is, and the locals of its call
    logfd,       \* the global logfd: 3 once the log is open, -1 after shutdown
    fd_open,     \* whether descriptor 3 is still open
    qapilock,    \* the global apilock: TRUE while it points to _apilock
    qowner,      \* the owner of the mutex _apilock: 0 when free
    qlog,        \* the write() calls that reached the log: <<t, seq>> for a
                 \* field of call seq of thread t, <<0, t>> for an EOS event
    qcalls,      \* wrapped calls started so far
    exitcode,    \* [by, status]: the thread that ended the process and the
                 \* exit status; by = 0 while the process runs
    \* ---- SpecRace: wrappers on several threads
    rthr,        \* rthr[t]: where thread t is, its entry point, its local ctx
                 \* and the name or context it passes or got
    rowner,      \* the owner of the API mutex: 0 when free
    rcurrent,    \* current_context: 0 for NULL
    buckets,     \* buckets[c]: the chain of names in the hash bucket of context c
    touched,     \* the latest critical section of alGenSources or
                 \* alDeleteSources: its ctx, and current_context at the time
    rcalls,      \* wrapped calls started so far
    rnames,      \* names the real library has handed out so far
    \* ---- SpecClock: the timestamps of call events
    clock,       \* what now() returns: milliseconds since start-up
    tms,         \* tms[t]: the local currentms of IO_ENTRYINFO on thread t
    stamps,      \* the timestamps of the call events in the log, in log
                 \* order, each with its thread: <<t, ms>>
    \* ---- SpecString: strings through the codec
    str_written, \* the strings handed to the recorder's IO_STRING, in order
    str_read,    \* the strings the player's IO_STRING has returned, in order
    sread,       \* the read state of the player, past the header: [pos, fail]
    \* ---- SpecName: the name of the trace file
    files,       \* files[n]: the file named <procname>.altrace (n = 0) or
                 \* <procname>.<n>.altrace: "absent", "readable" or "unreadable"
    chosen,      \* the n of the name choose_tracefile_name returned; -1 before
    \* ---- SpecDetect: the state-change detector of one source
    det,         \* the detector: [shadow, queried, emitted, checks]
    \* ---- SpecBucket: the buffer wrappers of one device
    bufs,        \* bufs[b]: the record at address b
    wrapped_buffer_hash,  \* wrapped_buffer_hash[h]: the head of bucket h, or NULL
    realbufs,    \* the buffer names that are live in the real library
    blast,       \* the last call: [name, names, ok]
    bops,        \* the number of calls made
    \* ---- SpecScope: the trace scope of the player
    trace_scope, \* the static trace_scope, a uint32 kept as the int32 that
                 \* has the same bits
    scope_visits, \* the visitor calls so far: <<event, callerinfo.trace_scope>>
    \* ---- SpecAgain: a second playback in the same process
    earlier_runs \* what the visitors saw in the playbacks that have returned

lockVars == <<apilock, tpc, tep, tseq, ncalls, wlog>>

codecVars == <<trace, rec_open, nevents, recorded, rec_frames, pstate, rpos, io_failure,
               visited, eos_calls, progress, retval, threadids, next_mapped_threadid,
               symframes, labelmaps, label_visits>>

regVars == <<devs, ctxs, srcs, current_context, null_context_errorlatch, real, events,
             polled, pass, last, nops>>

quitVars == <<thr, logfd, fd_open, qapilock, qowner, qlog, qcalls, exitcode>>

\* the variables of the specifications that were added to the first four
raceVars == <<rthr, rowner, rcurrent, buckets, touched, rcalls, rnames>>

clockVars == <<clock, tms, stamps>>

strVars == <<str_written, str_read, sread>>

nameVars == <<files, chosen>>

detVars == <<det>>

bucketVars == <<bufs, wrapped_buffer_hash, realbufs, blast, bops>>

scopeVars == <<trace_scope, scope_visits>>

againVars == <<earlier_runs>>

moreVars == <<quitVars, raceVars, clockVars, strVars, nameVars, detVars, bucketVars, scopeVars, againVars>>

vars == <<lockVars, codecVars, regVars, moreVars>>

\* what the actions of each specification leave alone
notLock == <<codecVars, regVars, moreVars>>

notCodec == <<lockVars, regVars, moreVars>>

(***************************************************************************)
(* SpecLock.  One wrapped call is the sequence                             *)
(*   IO_START (APILOCK, IO_ENTRYINFO); arguments; REAL_fn; return values;  *)
(*   IO_END (check_al_error_events, check_al_async_states, APIUNLOCK).     *)
(* alGenSources and alGenBuffers call REAL_fn before IO_START.             *)
(* alGetError calls no real function of its own; alIsSource stands for the *)
(* wrappers that follow the template.                                      *)
(***************************************************************************)
Threads == 1..NThreads

GenEntryPoints == {"alGenSources", "alGenBuffers"}

EntryPoints == {"alIsSource", "alGetError"} \cup GenEntryPoints

\* n successive write(logfd, ...) calls by thread t on behalf of its current
\* call; the log keeps one entry for a run of writes of the same call
LogWrite(t, n) ==
    wlog' = IF n = 0 \/ (wlog # <<>> /\ wlog[Len(wlog)] = <<t, tseq[t]>>) THEN wlog
            ELSE Append(wlog, <<t, tseq[t]>>)

\* the application calls entry point ep on thread t
Enter(t, ep) ==
    /\ tpc[t] = "idle"
    /\ ncalls < MaxCalls
    /\ ncalls' = ncalls + 1
    /\ tseq' = [tseq EXCEPT ![t] = ncalls + 1]
    /\ tep' = [tep EXCEPT ![t] = ep]
    /\ tpc' = [tpc EXCEPT ![t] = IF ep \in GenEntryPoints THEN "REAL" ELSE "APILOCK"]
    /\ UNCHANGED <<apilock, wlog, notLock>>

APILOCK_NoWait(t) ==
    /\ tpc[t] = "APILOCK"
    /\ apilock' = t
    /\ tpc' = [tpc EXCEPT ![t] = "IO_ENTRYINFO"]
    /\ UNCHANGED <<tep, tseq, ncalls, wlog, notLock>>

\* pthread_mutex_lock(apilock): blocks until the mutex is free
APILOCK(t) ==
    /\ tpc[t] = "APILOCK"
    /\ apilock = 0
    /\ apilock' = t
    /\ tpc' = [tpc EXCEPT ![t] = "IO_ENTRYINFO"]
    /\ UNCHANGED <<tep, tseq, ncalls, wlog, notLock>>

\* the call header: optional new-callstack-symbols event, tag, time, thread, stack
IO_ENTRYINFO(t) ==
    /\ tpc[t] = "IO_ENTRYINFO"
    /\ \E newsyms \in 0..1 : LogWrite(t, newsyms + 1)
    /\ tpc' = [tpc EXCEPT ![t] = "args"]
    /\ UNCHANGED <<apilock, tep, tseq, ncalls, notLock>>

\* the IO_* calls before the real call (for alGetError: the latched value;
\* for alGenSources/alGenBuffers: n, the pointer and the generated names)
WriteArgs(t) ==
    /\ tpc[t] = "args"
    /\ LogWrite(t, 1)
    /\ tpc' = [tpc EXCEPT ![t] =
                 IF tep[t] \in GenEntryPoints \cup {"alGetError"} THEN "IO_END" ELSE "REAL"]
    /\ UNCHANGED <<apilock, tep, tseq, ncalls, notLock>>

\* REAL_fn returns to the wrapper
ReturnReal(t) ==
    /\ tpc[t] = "REAL"
    /\ tpc' = [tpc EXCEPT ![t] =
                 IF tep[t] \in GenEntryPoints THEN "APILOCK"
                 ELSE IF tep[t] = "alIsSource" THEN "rets" ELSE "IO_END"]
    /\ UNCHANGED <<apilock, tep, tseq, ncalls, wlog, notLock>>

\* the IO_* calls after the real call
WriteRets(t) ==
    /\ tpc[t] = "rets"
    /\ LogWrite(t, 1)
    /\ tpc' = [tpc EXCEPT ![t] = "IO_END"]
    /\ UNCHANGED <<apilock, tep, tseq, ncalls, notLock>>

\* check_al_error_events(); check_al_async_states(): each may write events
IO_END(t) ==
    /\ tpc[t] = "IO_END"
    /\ \E tailevents \in 0..1 : LogWrite(t, tailevents)
    /\ tpc' = [tpc EXCEPT ![t] = "APIUNLOCK"]
    /\ UNCHANGED <<apilock, tep, tseq, ncalls, notLock>>

APIUNLOCK(t) ==
    /\ tpc[t] = "APIUNLOCK"
    /\ apilock' = 0
    /\ tpc' = [tpc EXCEPT ![t] = "idle"]
    /\ tep' = [tep EXCEPT ![t] = "none"]
    /\ UNCHANGED <<tseq, ncalls, wlog, notLock>>

NextLock ==
    \/ \E t \in Threads, ep \in EntryPoints : Enter(t, ep)
    \/ \E t \in Threads : APILOCK(t)
    \/ \E t \in Threads : IO_ENTRYINFO(t)
    \/ \E t \in Threads : WriteArgs(t)
    \/ \E t \in Threads : ReturnReal(t)
    \/ \E t \in Threads : WriteRets(t)
    \/ \E t \in Threads : IO_END(t)
    \/ \E t \in Threads : APIUNLOCK(t)

(***************************************************************************)
(* The byte codec.  A 32-bit word is kept as the int32 that has the same   *)
(* bit pattern (0xFFFFFFFF is -1); a 64-bit word is the pair <<low, high>> *)
(* of its 32-bit halves.  A float is its IEEE-754 bit pattern.  A string   *)
(* is [null, s] with s its bytes.                                          *)
(***************************************************************************)
RECURSIVE Cat(_)
Cat(ss) == IF ss = <<>> THEN <<>> ELSE Head(ss) \o Cat(Tail(ss))

U64(n) == <<n, 0>>

AllOnes64 == <<-1, -1>>

NullStr == [null |-> TRUE, s |-> <<>>]

Str(bytes) == [null |-> FALSE, s |-> bytes]

\* the four bytes of a word, least significant first
LE32(w) == << w % 256, (w \div 256) % 256, (w \div 65536) % 256, (w \div 16777216) % 256 >>

LE64(q) == LE32(q[1]) \o LE32(q[2])

\* the word made of four bytes, least significant first
W32(b) == b[1] + 256 * b[2] + 65536 * b[3]
          + 16777216 * (IF b[4] >= 128 THEN b[4] - 256 ELSE b[4])

RECURSIVE Log2(_)
Log2(n) == IF n <= 1 THEN 0 ELSE 1 + Log2(n \div 2)

\* the C conversion of an int to float (round to nearest, ties to even),
\* as the bit pattern of the result; |i| < 2^31
F32OfInt(i) ==
    IF i = 0 THEN 0
    ELSE LET m    == IF i < 0 THEN 0 - i ELSE i
             e    == Log2(m)
             f    == m - 2^e
             sh   == e - 23
             q    == IF sh <= 0 THEN f * 2^(0 - sh) ELSE f \div 2^sh
             rem  == IF sh <= 0 THEN 0 ELSE f % 2^sh
             half == IF sh <= 0 THEN 1 ELSE 2^(sh - 1)
             up   == IF rem > half \/ (rem = half /\ q % 2 = 1) THEN 1 ELSE 0
             mag  == (e + 127) * 8388608 + q + up
         IN  IF i < 0 THEN (mag - 1073741824) - 1073741824 ELSE mag

(***************************************************************************)
(* Recorder side: the bytes each IO_* writer hands to write(logfd, ...).   *)
(***************************************************************************)
wr_IO_INT32(x) == LE32(x)

wr_IO_UINT32(x) == LE32(x)

wr_IO_UINT64(x) == LE64(x)

wr_IO_FLOAT(x) == wr_IO_UINT32(x)

wr_IO_STRING(str) ==
    IF str.null THEN wr_IO_UINT64(AllOnes64)
    ELSE wr_IO_UINT64(U64(Len(str.s))) \o str.s

wr_IO_EVENTENUM(x) == wr_IO_UINT32(x)

wr_IO_PTR(ptr) == wr_IO_UINT64(ptr)

wr_IO_ENUM(e) == wr_IO_UINT32(e)

wr_IO_ALCENUM(e) == wr_IO_UINT32(e)

wr_IO_BOOLEAN(b) == wr_IO_UINT32(b)

wr_IO_ALCBOOLEAN(b) == wr_IO_UINT32(b)

(***************************************************************************)
(* Player side: the IO_* readers.  A reader takes the read state           *)
(* r = [pos, fail] (file offset, io_failure) and yields [v, r]: the value  *)
(* and the read state after it.                                            *)
(***************************************************************************)
\* read(logfd, buf, n) into a zeroed buffer: the bytes got, the rest zero
ReadBytes(r, n) ==
    LET avail == IF Len(trace) - r.pos < n THEN Len(trace) - r.pos ELSE n
    IN  [bytes |-> [i \in 1..n |-> IF i <= avail THEN trace[r.pos + i] ELSE 0],
         short |-> avail < n,
         pos   |-> r.pos + avail]

\* swap32(retval) of the buffer b that read() filled, and the read state after
Got32(b) == [v |-> W32(b.bytes), r |-> [pos |-> b.pos, fail |-> b.short]]

Got64(b) == [v |-> <<W32(SubSeq(b.bytes, 1, 4)), W32(SubSeq(b.bytes, 5, 8))>>,
             r |-> [pos |-> b.pos, fail |-> b.short]]

rd_readle32(r) == IF r.fail THEN [v |-> 0, r |-> r] ELSE Got32(ReadBytes(r, 4))

rd_readle64(r) == IF r.fail THEN [v |-> U64(0), r |-> r] ELSE Got64(ReadBytes(r, 8))

rd_IO_INT32(r) == rd_readle32(r)

rd_IO_UINT32(r) == rd_readle32(r)

rd_IO_UINT64(r) == rd_readle64(r)

rd_IO_FLOAT(r) == rd_readle32(r)

\* a length whose high half is set, or beyond the file, ends in a short read
\* IO_BLOB after its length len was read
GotBlob(len) ==
    IF len.r.fail THEN [v |-> NullStr, r |-> len.r]
    ELSE IF len.v = AllOnes64 THEN [v |-> NullStr, r |-> len.r]
    ELSE LET slen  == len.v[1]
             avail == Len(trace) - len.r.pos
             short == len.v[2] # 0 \/ slen < 0 \/ avail < slen
             got   == IF short THEN avail ELSE slen
         IN  [v |-> Str(SubSeq(trace, len.r.pos + 1, len.r.pos + got)),
              r |-> [pos |-> len.r.pos + got, fail |-> short]]

\* an IO_BLOB that returns NULL for a blob of length 0
rd_IO_BLOB_EmptyIsNull(r) ==
    LET b == GotBlob(rd_IO_UINT64(r))
    IN  IF b.v = Str(<<>>) THEN [b EXCEPT !.v = NullStr] ELSE b

rd_IO_BLOB(r) == GotBlob(rd_IO_UINT64(r))

rd_IO_STRING(r) == rd_IO_BLOB(r)

rd_IO_EVENTENUM(r) == rd_IO_UINT32(r)

rd_IO_PTR(r) == rd_IO_UINT64(r)

rd_IO_ENUM(r) == rd_IO_UINT32(r)

rd_IO_ALCENUM(r) == rd_IO_UINT32(r)

rd_IO_BOOLEAN(r) == rd_IO_UINT32(r)

rd_IO_ALCBOOLEAN(r) == rd_IO_UINT32(r)

\* the value x.v followed by the values of the reads that come after it
Cons(xv, rest) == [v |-> <<xv>> \o rest.v, r |-> rest.r]

ThenRead(x, Rest(_)) == Cons(x.v, Rest(x.r))

\* for (i = 0; i < n; i++) values[i] = IO_INT32();
RECURSIVE rd_INT32s(_, _)
rd_INT32s(r, n) ==
    IF n <= 0 THEN [v |-> <<>>, r |-> r] ELSE ThenRead(rd_IO_INT32(r), LAMBDA q : rd_INT32s(q, n - 1))

\* for (i = 0; i < n; i++) values[i] = IO_FLOAT();
RECURSIVE rd_FLOATs(_, _)
rd_FLOATs(r, n) ==
    IF n <= 0 THEN [v |-> <<>>, r |-> r] ELSE ThenRead(rd_IO_FLOAT(r), LAMBDA q : rd_FLOATs(q, n - 1))

\* for (i = 0; i < frames; i++) IO_PTR();
RECURSIVE rd_PTRs(_, _)
rd_PTRs(r, n) ==
    IF n <= 0 THEN [v |-> <<>>, r |-> r] ELSE ThenRead(rd_IO_PTR(r), LAMBDA q : rd_PTRs(q, n - 1))

(***************************************************************************)
(* Event tags.  EventEnum lists, in enumeration order, the entry points    *)
(* this model covers followed by the synthetic events; the tag of an event *)
(* is its position, counted from zero.                                     *)
(***************************************************************************)
CodecEntryPoints ==
    <<"alcOpenDevice", "alcMakeContextCurrent", "alGetError", "alListeneriv",
      "alGetListeneriv", "alBufferfv">>

SyntheticEvents ==
    <<"NEW_CALLSTACK_SYMS", "ALERROR_TRIGGERED", "ALCERROR_TRIGGERED",
      "DEVICE_STATE_CHANGED_BOOL", "DEVICE_STATE_CHANGED_INT",
      "CONTEXT_STATE_CHANGED_ENUM", "CONTEXT_STATE_CHANGED_FLOAT",
      "CONTEXT_STATE_CHANGED_STRING", "LISTENER_STATE_CHANGED_FLOATV",
      "SOURCE_STATE_CHANGED_BOOL", "SOURCE_STATE_CHANGED_ENUM",
      "SOURCE_STATE_CHANGED_INT", "SOURCE_STATE_CHANGED_UINT",
      "SOURCE_STATE_CHANGED_FLOAT", "SOURCE_STATE_CHANGED_FLOAT3",
      "BUFFER_STATE_CHANGED_INT", "EOS">>

EventEnum == CodecEntryPoints \o SyntheticEvents

ALEE(name) == (CHOOSE i \in 1..Len(EventEnum) : EventEnum[i] = name) - 1

ALTRACE_LOG_FILE_MAGIC == 17098145

ALTRACE_LOG_FILE_FORMAT == 1

(***************************************************************************)
(* Values of the AL and ALC enumerations the code names.                   *)
(***************************************************************************)
AL_NO_ERROR == 0
AL_INVALID_NAME == 40961
AL_POSITION == 4100
AL_VELOCITY == 4102
AL_ORIENTATION == 4111
AL_GAIN == 4106
AL_LOOPING == 4103
AL_BUFFER == 4105
AL_PITCH == 4099
AL_SOURCE_STATE == 4112
AL_INITIAL == 4113
AL_PLAYING == 4114
AL_PAUSED == 4115
AL_STOPPED == 4116
AL_SOURCE_TYPE == 4135
AL_FREQUENCY == 8193
AL_VENDOR == 45057
AL_VERSION == 45058
AL_RENDERER == 45059
AL_EXTENSIONS == 45060
AL_DOPPLER_FACTOR == 49152
AL_DISTANCE_MODEL == 53248
ALC_NO_ERROR == 0
ALC_INVALID_DEVICE == 40961
ALC_INVALID_CONTEXT == 40962
ALC_CAPTURE_SAMPLES == 786
ALC_CONNECTED == 787

(***************************************************************************)
(* One field written by, or read with, the IO_* function of that name.     *)
(***************************************************************************)
wr(kind, x) ==
    CASE kind = "INT32"      -> wr_IO_INT32(x)
      [] kind = "UINT32"     -> wr_IO_UINT32(x)
      [] kind = "FLOAT"      -> wr_IO_FLOAT(x)
      [] kind = "STRING"     -> wr_IO_STRING(x)
      [] kind = "PTR"        -> wr_IO_PTR(x)
      [] kind = "ENUM"       -> wr_IO_ENUM(x)
      [] kind = "ALCENUM"    -> wr_IO_ALCENUM(x)
      [] kind = "BOOLEAN"    -> wr_IO_BOOLEAN(x)
      [] kind = "ALCBOOLEAN" -> wr_IO_ALCBOOLEAN(x)

wr_fields(kinds, xs) == Cat([i \in 1..Len(kinds) |-> wr(kinds[i], xs[i])])

rd(kind, r) ==
    CASE kind = "INT32"      -> rd_IO_INT32(r)
      [] kind = "UINT32"     -> rd_IO_UINT32(r)
      [] kind = "UINT64"     -> rd_IO_UINT64(r)
      [] kind = "FLOAT"      -> rd_IO_FLOAT(r)
      [] kind = "STRING"     -> rd_IO_STRING(r)
      [] kind = "PTR"        -> rd_IO_PTR(r)
      [] kind = "ENUM"       -> rd_IO_ENUM(r)
      [] kind = "ALCENUM"    -> rd_IO_ALCENUM(r)
      [] kind = "BOOLEAN"    -> rd_IO_BOOLEAN(r)
      [] kind = "ALCBOOLEAN" -> rd_IO_ALCBOOLEAN(r)

RECURSIVE rd_fields(_, _)
rd_fields(kinds, r) ==
    IF kinds = <<>> THEN [v |-> <<>>, r |-> r]
    ELSE ThenRead(rd(Head(kinds), r), LAMBDA q : rd_fields(Tail(kinds), q))

(***************************************************************************)
(* Recorder: the synthetic events.  Each operator is the bytes its         *)
(* detector writes when it fires.                                          *)
(***************************************************************************)
wr_check_al_error_events(alerr) ==
    wr_IO_EVENTENUM(ALEE("ALERROR_TRIGGERED")) \o wr_fields(<<"ENUM">>, <<alerr>>)

wr_check_alc_error_events(device, alcerr) ==
    wr_IO_EVENTENUM(ALEE("ALCERROR_TRIGGERED"))
        \o wr_fields(<<"PTR", "ALCENUM">>, <<device, alcerr>>)

wr_check_device_state_bool(device, param, newval) ==
    wr_IO_EVENTENUM(ALEE("DEVICE_STATE_CHANGED_BOOL"))
        \o wr_fields(<<"PTR", "ENUM", "ALCBOOLEAN">>, <<device, param, newval>>)

wr_check_device_state_int(device, param, ival) ==
    wr_IO_EVENTENUM(ALEE("DEVICE_STATE_CHANGED_INT"))
        \o wr_fields(<<"PTR", "ALCENUM", "INT32">>, <<device, param, ival>>)

wr_check_context_state_enum(ctx, param, newval) ==
    wr_IO_EVENTENUM(ALEE("CONTEXT_STATE_CHANGED_ENUM"))
        \o wr_fields(<<"PTR", "ENUM", "ENUM">>, <<ctx, param, newval>>)

wr_check_context_state_float(ctx, param, fval) ==
    wr_IO_EVENTENUM(ALEE("CONTEXT_STATE_CHANGED_FLOAT"))
        \o wr_fields(<<"PTR", "ENUM", "FLOAT">>, <<ctx, param, fval>>)

wr_query_context_string(ctx, param, str) ==
    wr_IO_EVENTENUM(ALEE("CONTEXT_STATE_CHANGED_STRING"))
        \o wr_fields(<<"PTR", "ENUM", "STRING">>, <<ctx, param, str>>)

wr_check_listener_state_floatv(ctx, param, numfloats, fval) ==
    wr_IO_EVENTENUM(ALEE("LISTENER_STATE_CHANGED_FLOATV"))
        \o wr_fields(<<"PTR", "ENUM", "UINT32">>, <<ctx, param, numfloats>>)
        \o Cat([i \in 1..numfloats |-> wr_IO_FLOAT(fval[i])])

wr_check_source_state_bool(name, param, newval) ==
    wr_IO_EVENTENUM(ALEE("SOURCE_STATE_CHANGED_BOOL"))
        \o wr_fields(<<"UINT32", "ENUM", "BOOLEAN">>, <<name, param, newval>>)

wr_check_source_state_enum(name, param, newval) ==
    wr_IO_EVENTENUM(ALEE("SOURCE_STATE_CHANGED_ENUM"))
        \o wr_fields(<<"UINT32", "ENUM", "ENUM">>, <<name, param, newval>>)

wr_check_source_state_int(name, param, ival) ==
    wr_IO_EVENTENUM(ALEE("SOURCE_STATE_CHANGED_INT"))
        \o wr_fields(<<"UINT32", "ENUM", "INT32">>, <<name, param, ival>>)

wr_check_source_state_uint(name, param, newval) ==
    wr_IO_EVENTENUM(ALEE("SOURCE_STATE_CHANGED_UINT"))
        \o wr_fields(<<"UINT32", "ENUM", "UINT32">>, <<name, param, newval>>)

wr_check_source_state_float(name, param, fval) ==
    wr_IO_EVENTENUM(ALEE("SOURCE_STATE_CHANGED_FLOAT"))
        \o wr_fields(<<"UINT32", "ENUM", "FLOAT">>, <<name, param, fval>>)

wr_check_source_state_float3(name, param, f1, f2, f3) ==
    wr_IO_EVENTENUM(ALEE("SOURCE_STATE_CHANGED_FLOAT3"))
        \o wr_fields(<<"UINT32", "ENUM", "FLOAT", "FLOAT", "FLOAT">>,
                     <<name, param, f1, f2, f3>>)

wr_check_buffer_state_int(name, param, ival) ==
    wr_IO_EVENTENUM(ALEE("BUFFER_STATE_CHANGED_INT"))
        \o wr_fields(<<"UINT32", "ENUM", "INT32">>, <<name, param, ival>>)

\* the bytes of the synthetic event ev = [name, args]
wr_synthetic(ev) ==
    LET a == ev.args
    IN  CASE ev.name = "ALERROR_TRIGGERED" -> wr_check_al_error_events(a[1])
          [] ev.name = "ALCERROR_TRIGGERED" -> wr_check_alc_error_events(a[1], a[2])
          [] ev.name = "DEVICE_STATE_CHANGED_BOOL" ->
                 wr_check_device_state_bool(a[1], a[2], a[3])
          [] ev.name = "DEVICE_STATE_CHANGED_INT" ->
                 wr_check_device_state_int(a[1], a[2], a[3])
          [] ev.name = "CONTEXT_STATE_CHANGED_ENUM" ->
                 wr_check_context_state_enum(a[1], a[2], a[3])
          [] ev.name = "CONTEXT_STATE_CHANGED_FLOAT" ->
                 wr_check_context_state_float(a[1], a[2], a[3])
          [] ev.name = "CONTEXT_STATE_CHANGED_STRING" ->
                 wr_query_context_string(a[1], a[2], a[3])
          [] ev.name = "LISTENER_STATE_CHANGED_FLOATV" ->
                 wr_check_listener_state_floatv(a[1], a[2], a[3], a[4])
          [] ev.name = "SOURCE_STATE_CHANGED_BOOL" ->
                 wr_check_source_state_bool(a[1], a[2], a[3])
          [] ev.name = "SOURCE_STATE_CHANGED_ENUM" ->
                 wr_check_source_state_enum(a[1], a[2], a[3])
          [] ev.name = "SOURCE_STATE_CHANGED_INT" ->
                 wr_check_source_state_int(a[1], a[2], a[3])
          [] ev.name = "SOURCE_STATE_CHANGED_UINT" ->
                 wr_check_source_state_uint(a[1], a[2], a[3])
          [] ev.name = "SOURCE_STATE_CHANGED_FLOAT" ->
                 wr_check_source_state_float(a[1], a[2], a[3])
          [] ev.name = "SOURCE_STATE_CHANGED_FLOAT3" ->
                 wr_check_source_state_float3(a[1], a[2], a[3], a[4], a[5])
          [] ev.name = "BUFFER_STATE_CHANGED_INT" ->
                 wr_check_buffer_state_int(a[1], a[2], a[3])

(***************************************************************************)
(* Recorder: the call header.                                              *)
(***************************************************************************)
NULLPTR == U64(0)

\* the addresses a captured stack can hold, and what backtrace_symbols()
\* makes of each: a symbol for the first, NULL for the second
Frames == {U64(24576), U64(28672)}

Sym(frame) == IF frame = U64(24576) THEN Str(<<102>>) ELSE NullStr

\* the loop with a get_callstack_sym that never calls add_stackframe_to_map
RECURSIVE ScanCallstack_NoMap(_, _, _, _)
ScanCallstack_NoMap(callstack, i, news, map) ==
    IF i > Len(callstack) THEN [frames |-> Len(callstack), news |-> news, map |-> map]
    ELSE IF Sym(callstack[i]).null /\ callstack[i] \notin map
    THEN [frames |-> i - 1, news |-> news, map |-> map]
    ELSE IF callstack[i] \in map
    THEN ScanCallstack_NoMap(callstack, i + 1, news, map)
    ELSE ScanCallstack_NoMap(callstack, i + 1,
                             Append(news, <<callstack[i], Sym(callstack[i])>>), map)

\* the for loop of IO_ENTRYINFO over callstack[i + 2], get_callstack_sym
\* included: [frames kept, new (address, symbol) pairs, stackframe map]
RECURSIVE ScanCallstack(_, _, _, _)
ScanCallstack(callstack, i, news, map) ==
    IF i > Len(callstack) THEN [frames |-> Len(callstack), news |-> news, map |-> map]
    ELSE LET ptr         == callstack[i]
             seen_before == ptr \in map
             str         == Sym(ptr)
         IN  IF str.null /\ ~seen_before
             THEN [frames |-> i - 1, news |-> news, map |-> map]
             ELSE IF seen_before
             THEN ScanCallstack(callstack, i + 1, news, map)
             ELSE ScanCallstack(callstack, i + 1, Append(news, <<ptr, str>>),
                                map \cup {ptr})

\* IO_ENTRYINFO(entryid): [bytes, map, ci] for the time, thread and stack given
\* what IO_ENTRYINFO writes once its loop has left frames, new strings
\* news and the stackframe map map
wr_entryinfo(entryid, currentms, self, callstack, frames, news, map) ==
    [bytes |->
         (IF Len(news) > 0
          THEN wr_IO_EVENTENUM(ALEE("NEW_CALLSTACK_SYMS")) \o wr_IO_UINT32(Len(news))
               \o Cat([i \in 1..Len(news) |-> wr_IO_PTR(news[i][1])
                                               \o wr_IO_STRING(news[i][2])])
          ELSE <<>>)
         \o wr_IO_EVENTENUM(entryid) \o wr_IO_UINT32(currentms)
         \o wr_IO_UINT64(self) \o wr_IO_UINT32(frames)
         \o Cat([i \in 1..frames |-> wr_IO_PTR(callstack[i])]),
     map |-> map,
     \* what the recorder did for this call: stack is the address list it
     \* wrote, captured what backtrace() returned, news the pairs of the
     \* new-callstack-symbols event it wrote first, if any
     ci  |-> [ms |-> currentms, thread |-> self, stack |-> SubSeq(callstack, 1, frames),
              captured |-> callstack, news |-> news]]

wr_scanned(entryid, currentms, self, callstack, sc) ==
    wr_entryinfo(entryid, currentms, self, callstack, sc.frames, sc.news, sc.map)

wr_IO_ENTRYINFO(entryid, currentms, self, callstack, map) ==
    wr_scanned(entryid, currentms, self, callstack, ScanCallstack(callstack, 1, <<>>, map))

(***************************************************************************)
(* Recorder: the fields each wrapper writes between IO_START and IO_END.   *)
(* args are the C values in the order they are written.                    *)
(***************************************************************************)
\* the switch on param of alListeneriv and alGetListeneriv
NumVals(param, values) ==
    IF values = NULLPTR THEN 0
    ELSE IF param \in {AL_POSITION, AL_VELOCITY} THEN 3
    ELSE IF param = AL_ORIENTATION THEN 6
    ELSE 1

\* args = <<devicename, retval ? device : NULL>> and, when the real call
\* returned a device, <<major, minor, device specifier, extensions>>
wr_alcOpenDevice(args) ==
    wr_fields(<<"STRING", "PTR">>, SubSeq(args, 1, 2))
        \o (IF args[2] # NULLPTR
            THEN wr_fields(<<"INT32", "INT32", "STRING", "STRING">>, SubSeq(args, 3, 6))
            ELSE <<>>)

\* args = <<ctx, retval>>
wr_alcMakeContextCurrent(args) == wr_fields(<<"PTR", "ALCBOOLEAN">>, args)

\* args = <<retval>>
wr_alGetError(args) == wr_fields(<<"ENUM">>, args)

\* args = <<param, values, numvals, the ALint values>>
wr_alListeneriv(args) ==
    wr_fields(<<"ENUM", "PTR", "UINT32">>, SubSeq(args, 1, 3))
        \o Cat([i \in 1..args[3] |-> wr_IO_INT32(args[4][i])])

\* args = <<param, values, numvals, the ALint values the real call stored>>;
\* IO_FLOAT(values[i]) converts each ALint to float
wr_alGetListeneriv(args) ==
    wr_fields(<<"ENUM", "PTR", "UINT32">>, SubSeq(args, 1, 3))
        \o Cat([i \in 1..args[3] |-> wr_IO_FLOAT(F32OfInt(args[4][i]))])

\* args = <<name, param, values, numvals, the ALfloat values>>
wr_alBufferfv(args) ==
    wr_fields(<<"UINT32", "ENUM", "PTR", "UINT32">>, SubSeq(args, 1, 4))
        \o Cat([i \in 1..args[4] |-> wr_IO_FLOAT(args[5][i])])

wr_call(name, args) ==
    CASE name = "alcOpenDevice"         -> wr_alcOpenDevice(args)
      [] name = "alcMakeContextCurrent" -> wr_alcMakeContextCurrent(args)
      [] name = "alGetError"            -> wr_alGetError(args)
      [] name = "alListeneriv"          -> wr_alListeneriv(args)
      [] name = "alGetListeneriv"       -> wr_alGetListeneriv(args)
      [] name = "alBufferfv"            -> wr_alBufferfv(args)

(***************************************************************************)
(* What the environment hands the recorder in this specification: thread   *)
(* ids, stacks, arguments, and the state changes the detectors of a call's *)
(* tail find.                                                              *)
(***************************************************************************)
RawThreads == {U64(28673), <<16385, 1>>}

\* the sequences over S of length at most n
RECURSIVE SeqsUpTo(_, _)
SeqsUpTo(S, n) ==
    IF n <= 0 THEN {<<>>}
    ELSE LET less == SeqsUpTo(S, n - 1)
         IN  less \cup {Append(q, x) : q \in less, x \in S}

Callstacks == SeqsUpTo(Frames, MaxFrames)

DEV == U64(4096)

CTX == U64(8192)

VALUES == U64(12288)

\* 1.0f: sign 0, exponent 127, fraction 0
FLOAT_ONE == 127 * 8388608

Ev(name, args) == [name |-> name, ci |-> <<>>, args |-> args]

\* check_al_async_states: each item is what one detector writes
AsyncItems ==
    << <<Ev("DEVICE_STATE_CHANGED_BOOL", <<DEV, ALC_CONNECTED, 0>>)>>,
       <<Ev("DEVICE_STATE_CHANGED_INT", <<DEV, ALC_CAPTURE_SAMPLES, 300>>)>>,
       <<Ev("SOURCE_STATE_CHANGED_ENUM", <<1, AL_SOURCE_STATE, AL_STOPPED>>)>>,
       <<Ev("SOURCE_STATE_CHANGED_BOOL", <<1, AL_LOOPING, 1>>)>>,
       <<Ev("SOURCE_STATE_CHANGED_INT", <<1, AL_SOURCE_TYPE, -1>>)>>,
       <<Ev("SOURCE_STATE_CHANGED_UINT", <<1, AL_BUFFER, 2>>)>>,
       <<Ev("SOURCE_STATE_CHANGED_FLOAT", <<1, AL_PITCH, FLOAT_ONE>>)>>,
       <<Ev("SOURCE_STATE_CHANGED_FLOAT3", <<1, AL_POSITION, 0, FLOAT_ONE, 0 - FLOAT_ONE>>)>> >>

ListenerItem ==
    <<Ev("LISTENER_STATE_CHANGED_FLOATV", <<CTX, AL_GAIN, 1, <<FLOAT_ONE>>>>)>>

\* check_context_static_state, then check_context_state
ContextItems ==
    << <<Ev("CONTEXT_STATE_CHANGED_STRING", <<CTX, AL_VERSION, Str(<<49>>)>>),
         Ev("CONTEXT_STATE_CHANGED_STRING", <<CTX, AL_RENDERER, Str(<<>>)>>),
         Ev("CONTEXT_STATE_CHANGED_STRING", <<CTX, AL_VENDOR, NullStr>>),
         Ev("CONTEXT_STATE_CHANGED_STRING", <<CTX, AL_EXTENSIONS, Str(<<65, 76>>)>>)>>,
       <<Ev("CONTEXT_STATE_CHANGED_ENUM", <<CTX, AL_DISTANCE_MODEL, 0>>)>>,
       <<Ev("CONTEXT_STATE_CHANGED_FLOAT", <<CTX, AL_DOPPLER_FACTOR, FLOAT_ONE>>)>>,
       ListenerItem >>

ALErrorItem == <<Ev("ALERROR_TRIGGERED", <<AL_INVALID_NAME>>)>>

ALCErrorItem == <<Ev("ALCERROR_TRIGGERED", <<DEV, ALC_INVALID_CONTEXT>>)>>

\* the detectors that run after the fields of a call, in the order they run
TailItems(name, args) ==
    CASE name = "alcOpenDevice" ->
             (IF args[2] # NULLPTR THEN <<ALCErrorItem>> ELSE <<>>) \o AsyncItems
      [] name = "alcMakeContextCurrent" ->
             (IF args[2] # 0 /\ args[1] # NULLPTR
              THEN ContextItems \o <<ALCErrorItem>> ELSE <<>>) \o AsyncItems
      [] name = "alGetError"      -> <<ALErrorItem>> \o AsyncItems
      [] name = "alListeneriv"    -> <<ListenerItem, ALErrorItem>> \o AsyncItems
      [] name = "alGetListeneriv" -> <<ALErrorItem>> \o AsyncItems
      [] name = "alBufferfv" ->
             << <<Ev("BUFFER_STATE_CHANGED_INT", <<1, AL_FREQUENCY, 300>>)>>,
                ALErrorItem >> \o AsyncItems

\* the items chosen by the index set I, in order
RECURSIVE PickItems(_, _, _)
PickItems(items, I, i) ==
    IF i > Len(items) THEN <<>>
    ELSE (IF i \in I THEN items[i] ELSE <<>>) \o PickItems(items, I, i + 1)

\* the sets of at most k indices out of 1..n
RECURSIVE SmallSubsets(_, _)
SmallSubsets(n, k) ==
    IF k <= 0 THEN {{}}
    ELSE LET less == SmallSubsets(n, k - 1)
         IN  less \cup {S \cup {i} : S \in less, i \in 1..n}

playVars == <<pstate, rpos, io_failure, visited, eos_calls, progress, retval,
              threadids, next_mapped_threadid, symframes, labelmaps, label_visits>>

\* the call with header h, its fields, and the events tail of k detectors
Written(name, args, h, tail, k) ==
    /\ trace' = trace \o h.bytes \o wr_call(name, args)
                      \o Cat([i \in 1..Len(tail) |-> wr_synthetic(tail[i])])
    /\ recorded' = recorded \o <<[name |-> name, ci |-> h.ci, args |-> args]>> \o tail
    /\ rec_frames' = h.map
    /\ nevents' = nevents + 1 + k

\* the detectors that fire are any of items that the event budget admits
WithTail(name, args, h, items) ==
    \E I \in SmallSubsets(Len(items), MaxEvents - nevents - 1) :
        Written(name, args, h, PickItems(items, I, 1), Cardinality(I))

\* one wrapped call, from IO_START to IO_END: header, fields, tail events,
\* made with one of the stacks given
RecordCallFrom(name, args, stacks) ==
    /\ rec_open
    /\ nevents < MaxEvents
    /\ \E self \in RawThreads, callstack \in stacks :
          WithTail(name, args,
                   wr_IO_ENTRYINFO(ALEE(name), 300 * nevents, self, callstack, rec_frames),
                   TailItems(name, args))
    /\ UNCHANGED <<rec_open, playVars, notCodec>>

RecordCall(name, args) == RecordCallFrom(name, args, Callstacks)

Rec_alcOpenDevice ==
    \E devicename \in {NullStr, Str(<<100>>)} :
        \/ RecordCall("alcOpenDevice", <<devicename, NULLPTR>>)
        \/ RecordCall("alcOpenDevice",
                      <<devicename, DEV, 1, 1, Str(<<100, 118>>), Str(<<>>)>>)

Rec_alcMakeContextCurrent ==
    \E ctx \in {NULLPTR, CTX}, ret \in {0, 1} :
        RecordCall("alcMakeContextCurrent", <<ctx, ret>>)

Rec_alGetError ==
    \E latch \in {AL_NO_ERROR, AL_INVALID_NAME} : RecordCall("alGetError", <<latch>>)

Rec_alListeneriv ==
    \/ RecordCall("alListeneriv", <<AL_POSITION, VALUES, NumVals(AL_POSITION, VALUES),
                                    <<1, 0, -1>>>>)
    \/ RecordCall("alListeneriv", <<AL_GAIN, NULLPTR, NumVals(AL_GAIN, NULLPTR), <<>>>>)

Rec_alGetListeneriv ==
    \/ \E got \in {<<0, 0, 0>>, <<1, 0, -1>>} :
           RecordCall("alGetListeneriv",
                      <<AL_POSITION, VALUES, NumVals(AL_POSITION, VALUES), got>>)
    \/ RecordCall("alGetListeneriv", <<AL_GAIN, NULLPTR, NumVals(AL_GAIN, NULLPTR), <<>>>>)

Rec_alBufferfv ==
    \E v \in {0, FLOAT_ONE} :
        RecordCall("alBufferfv", <<1, AL_FREQUENCY, VALUES, 1, <<v>>>>)

\* quit_altrace_record: the EOS tag and the tick count, then close(logfd)
quit_altrace_record ==
    /\ rec_open
    /\ trace' = trace \o LE32(ALEE("EOS")) \o LE32(300 * nevents)
    /\ rec_open' = FALSE
    /\ UNCHANGED <<nevents, recorded, rec_frames, playVars, notCodec>>

(***************************************************************************)
(* Player: the decoders.  Each yields [v, r]: the values it hands to its   *)
(* visitor, in the order they were read, and the read state after it.      *)
(***************************************************************************)
\* the values av followed by those of the reads b that come after them
Join(av, b) == [v |-> av \o b.v, r |-> b.r]

\* the fields a, then the array Arr reads, its length being field k of a
AppendArray(av, vs) == [v |-> Append(av, vs.v), r |-> vs.r]

WithArray(a, Arr(_, _), k) == AppendArray(a.v, Arr(a.r, a.v[k]))

\* retval ? IO_INT32() : 0, ... after devicename and retval were read into a
decode_alcOpenDevice_rest(a) ==
    IF a.v[2] # NULLPTR
    THEN Join(a.v, rd_fields(<<"INT32", "INT32", "STRING", "STRING">>, a.r))
    ELSE [v |-> a.v \o <<0, 0, NullStr, NullStr>>, r |-> a.r]

decode_alcOpenDevice(r) == decode_alcOpenDevice_rest(rd_fields(<<"STRING", "PTR">>, r))

decode_alcMakeContextCurrent(r) == rd_fields(<<"PTR", "ALCBOOLEAN">>, r)

decode_alGetError(r) == rd_fields(<<"ENUM">>, r)

decode_alListeneriv(r) ==
    WithArray(rd_fields(<<"ENUM", "PTR", "UINT32">>, r), rd_INT32s, 3)

decode_alGetListeneriv(r) ==
    WithArray(rd_fields(<<"ENUM", "PTR", "UINT32">>, r), rd_INT32s, 3)

\* ALfloat values[i] = IO_INT32(): each integer read is converted to float
AsFloats(vs) == [v |-> [i \in 1..Len(vs.v) |-> F32OfInt(vs.v[i])], r |-> vs.r]

rd_INT32s_into_floats(r, n) == AsFloats(rd_INT32s(r, n))

decode_alBufferfv(r) ==
    WithArray(rd_fields(<<"UINT32", "ENUM", "PTR", "UINT32">>, r), rd_INT32s_into_floats, 4)

decode_al_error_event(r) == rd_fields(<<"ENUM">>, r)

decode_alc_error_event(r) == rd_fields(<<"PTR", "ALCENUM">>, r)

decode_device_state_changed_int(r) == rd_fields(<<"PTR", "ALCENUM", "INT32">>, r)

decode_context_state_changed_enum(r) == rd_fields(<<"PTR", "ENUM", "ENUM">>, r)

decode_context_state_changed_float(r) == rd_fields(<<"PTR", "ENUM", "FLOAT">>, r)

decode_context_state_changed_string(r) == rd_fields(<<"PTR", "ENUM", "STRING">>, r)

decode_listener_state_changed_floatv(r) ==
    WithArray(rd_fields(<<"PTR", "ENUM", "UINT32">>, r), rd_FLOATs, 3)

decode_source_state_changed_bool(r) == rd_fields(<<"UINT32", "ENUM", "BOOLEAN">>, r)

decode_source_state_changed_enum(r) == rd_fields(<<"UINT32", "ENUM", "ENUM">>, r)

decode_source_state_changed_int(r) == rd_fields(<<"UINT32", "ENUM", "INT32">>, r)

decode_source_state_changed_uint(r) == rd_fields(<<"UINT32", "ENUM", "UINT32">>, r)

decode_source_state_changed_float(r) == rd_fields(<<"UINT32", "ENUM", "FLOAT">>, r)

decode_source_state_changed_float3(r) ==
    rd_fields(<<"UINT32", "ENUM", "FLOAT", "FLOAT", "FLOAT">>, r)

decode_buffer_state_changed_int(r) == rd_fields(<<"UINT32", "ENUM", "INT32">>, r)

decode_eos(r) == rd_fields(<<"UINT32">>, r)

\* the loop of decode_callstack_syms_event: [r, map]
RECURSIVE rd_callstack_syms(_, _, _)
\* one pass of the loop after ptr and str were read
add_stackframe(ptr, str, n, map) ==
    IF str.r.fail THEN [r |-> str.r, map |-> map]
    ELSE rd_callstack_syms(str.r, n - 1,
                           IF ~str.v.null /\ ptr # NULLPTR
                           THEN {p \in map : p[1] # ptr} \cup {<<ptr, str.v.s>>}
                           ELSE map)

rd_callstack_sym(ptr, n, map) == add_stackframe(ptr.v, rd_IO_STRING(ptr.r), n, map)

rd_callstack_syms(r, n, map) ==
    IF n <= 0 THEN [r |-> r, map |-> map] ELSE rd_callstack_sym(rd_IO_PTR(r), n, map)

rd_num_new_strings(num_new_strings, map) ==
    rd_callstack_syms(num_new_strings.r, num_new_strings.v, map)

decode_callstack_syms_event(r, map) == rd_num_new_strings(rd_IO_UINT32(r), map)

get_mapped_stackframe(map, ptr) ==
    IF \E p \in map : p[1] = ptr THEN Str((CHOOSE p \in map : p[1] = ptr)[2])
    ELSE NullStr

\* a thread-id map in which no raw id is ever found
get_mapped_threadid_none(tmap, logthreadid) == 0

\* IO_ENTRYINFO(&callerinfo): [r, ci, tmap, next]
\* get_mapped_threadid: the dense id of a raw id, 0 if it has none
get_mapped_threadid(tmap, logthreadid) ==
    IF \E p \in tmap : p[1] = logthreadid
    THEN (CHOOSE p \in tmap : p[1] = logthreadid)[2]
    ELSE 0

\* the callerinfo made of the header words hv = <<wait_until, logthreadid,
\* frames>>, the dense id and the frame addresses ptrs
callerinfo_of(hv, threadid, ptrs, tmap, next, map) ==
    [r    |-> ptrs.r,
     ci   |-> [wait_until |-> hv[1], threadid |-> threadid,
               stack |-> [i \in 1..Len(ptrs.v) |->
                             <<ptrs.v[i], get_mapped_stackframe(map, ptrs.v[i])>>]],
     tmap |-> tmap \cup {<<hv[2], threadid>>},
     next |-> next]

\* if (!threadid) threadid = ++next_mapped_threadid, and the frames loop
map_threadid(h, mapped, tmap, next, map) ==
    IF mapped = 0
    THEN callerinfo_of(h.v, next + 1, rd_PTRs(h.r, h.v[3]), tmap, next + 1, map)
    ELSE callerinfo_of(h.v, mapped, rd_PTRs(h.r, h.v[3]), tmap, next, map)

rd_callerinfo(h, tmap, next, map) ==
    IF h.r.fail THEN [r |-> h.r, ci |-> <<>>, tmap |-> tmap, next |-> next]
    ELSE map_threadid(h, get_mapped_threadid(tmap, h.v[2]), tmap, next, map)

rd_IO_ENTRYINFO(r, tmap, next, map) ==
    rd_callerinfo(rd_fields(<<"UINT32", "UINT64", "UINT32">>, r), tmap, next, map)

\* the decoder process_tracelog's switch runs for an entry point's tag
decode_entrypoint(name, r) ==
    CASE name = "alcOpenDevice"         -> decode_alcOpenDevice(r)
      [] name = "alcMakeContextCurrent" -> decode_alcMakeContextCurrent(r)
      [] name = "alGetError"            -> decode_alGetError(r)
      [] name = "alListeneriv"          -> decode_alListeneriv(r)
      [] name = "alGetListeneriv"       -> decode_alGetListeneriv(r)
      [] name = "alBufferfv"            -> decode_alBufferfv(r)

\* the synthetic tags with a case label in the switch, NEW_CALLSTACK_SYMS
\* and EOS apart, and the decoder each runs
VisitedSynthetic ==
    {"ALERROR_TRIGGERED", "ALCERROR_TRIGGERED", "DEVICE_STATE_CHANGED_INT",
     "CONTEXT_STATE_CHANGED_ENUM", "CONTEXT_STATE_CHANGED_FLOAT",
     "CONTEXT_STATE_CHANGED_STRING", "LISTENER_STATE_CHANGED_FLOATV",
     "SOURCE_STATE_CHANGED_BOOL", "SOURCE_STATE_CHANGED_ENUM",
     "SOURCE_STATE_CHANGED_INT", "SOURCE_STATE_CHANGED_UINT",
     "SOURCE_STATE_CHANGED_FLOAT", "SOURCE_STATE_CHANGED_FLOAT3",
     "BUFFER_STATE_CHANGED_INT"}

decode_synthetic(name, r) ==
    CASE name = "ALERROR_TRIGGERED"             -> decode_al_error_event(r)
      [] name = "ALCERROR_TRIGGERED"            -> decode_alc_error_event(r)
      [] name = "DEVICE_STATE_CHANGED_INT"      -> decode_device_state_changed_int(r)
      [] name = "CONTEXT_STATE_CHANGED_ENUM"    -> decode_context_state_changed_enum(r)
      [] name = "CONTEXT_STATE_CHANGED_FLOAT"   -> decode_context_state_changed_float(r)
      [] name = "CONTEXT_STATE_CHANGED_STRING"  -> decode_context_state_changed_string(r)
      [] name = "LISTENER_STATE_CHANGED_FLOATV" -> decode_listener_state_changed_floatv(r)
      [] name = "SOURCE_STATE_CHANGED_BOOL"     -> decode_source_state_changed_bool(r)
      [] name = "SOURCE_STATE_CHANGED_ENUM"     -> decode_source_state_changed_enum(r)
      [] name = "SOURCE_STATE_CHANGED_INT"      -> decode_source_state_changed_int(r)
      [] name = "SOURCE_STATE_CHANGED_UINT"     -> decode_source_state_changed_uint(r)
      [] name = "SOURCE_STATE_CHANGED_FLOAT"    -> decode_source_state_changed_float(r)
      [] name = "SOURCE_STATE_CHANGED_FLOAT3"   -> decode_source_state_changed_float3(r)
      [] name = "BUFFER_STATE_CHANGED_INT"      -> decode_buffer_state_changed_int(r)

(***************************************************************************)
(* Player: process_tracelog.                                               *)
(***************************************************************************)
recVars == <<trace, rec_open, nevents, recorded, rec_frames>>

\* process_tracelog up to its loop: init_altrace_playback reads the header
init_altrace_playback ==
    /\ pstate = "off"
    /\ ~rec_open
    /\ LET magic  == rd_IO_UINT32([pos |-> 0, fail |-> FALSE])
           format == rd_IO_UINT32(magic.r)
           okay   == magic.v = ALTRACE_LOG_FILE_MAGIC
                     /\ format.v = ALTRACE_LOG_FILE_FORMAT
       IN  IF okay
           THEN /\ pstate' = "loop"
                /\ rpos' = format.r.pos
                /\ io_failure' = format.r.fail
                /\ retval' = 1
           ELSE /\ pstate' = "done"
                /\ rpos' = IF magic.v = ALTRACE_LOG_FILE_MAGIC THEN format.r.pos
                           ELSE magic.r.pos
                /\ io_failure' = IF magic.v = ALTRACE_LOG_FILE_MAGIC THEN format.r.fail
                                 ELSE magic.r.fail
                /\ retval' = 0
    /\ UNCHANGED <<visited, eos_calls, progress, threadids, next_mapped_threadid, symframes,
                   labelmaps, label_visits, recVars, notCodec>>

\* what one pass through the body of the while loop does:
\* [r, visits, eos, done, retval, tmap, next, map]; Same(r) is a pass that
\* only moved the read state to r
Same(r) ==
    [r |-> r, visits |-> <<>>, eos |-> <<>>, done |-> FALSE, retval |-> 1,
     tmap |-> threadids, next |-> next_mapped_threadid, map |-> symframes]

\* if (!io_failure) visit_<name>(&callerinfo, ...) after header h, fields d
visit_entrypoint(name, h, d) ==
    [Same(d.r) EXCEPT !.tmap = h.tmap, !.next = h.next,
                      !.visits = IF d.r.fail THEN <<>>
                                 ELSE <<[name |-> name, ci |-> h.ci, args |-> d.v]>>]

\* IO_START(name) ... IO_END() of decode_<name>, after its header h
decode_after_header(name, h) ==
    IF h.r.fail THEN Same(h.r) ELSE visit_entrypoint(name, h, decode_entrypoint(name, h.r))

visit_synthetic(name, d) ==
    [Same(d.r) EXCEPT !.visits = IF d.r.fail THEN <<>> ELSE <<Ev(name, d.v)>>]

callstack_syms_done(d) == [Same(d.r) EXCEPT !.map = d.map]

\* if (!io_failure) visit_eos(guserdata, AL_TRUE, ticks); eos = 1
visit_eos(d) ==
    [Same(d.r) EXCEPT !.done = TRUE,
                      !.eos = IF d.r.fail THEN <<>> ELSE <<<<TRUE, d.v[1]>>>>]

\* the name of the EventEnum member with value tag, if there is one
TagName(tag) ==
    IF tag >= 0 /\ tag < Len(EventEnum) THEN EventEnum[tag + 1] ELSE "unknown"

\* switch (IO_EVENTENUM()) with the tag read and the read state r after it
Switch(name, r) ==
    IF \E i \in 1..Len(CodecEntryPoints) : CodecEntryPoints[i] = name
    THEN decode_after_header(
             name, rd_IO_ENTRYINFO(r, threadids, next_mapped_threadid, symframes))
    ELSE IF name = "NEW_CALLSTACK_SYMS"
    THEN callstack_syms_done(decode_callstack_syms_event(r, symframes))
    ELSE IF name \in VisitedSynthetic THEN visit_synthetic(name, decode_synthetic(name, r))
    ELSE IF name = "EOS" THEN visit_eos(decode_eos(r))
    ELSE [Same(r) EXCEPT !.done = TRUE, !.retval = 0, !.eos = <<<<FALSE, 0>>>>]

LoopBody(tag) == Switch(TagName(tag.v), tag.r)

\* the state after a pass b of the loop; after the last one
\* quit_altrace_playback frees the maps and process_tracelog returns
AfterLoopBody(b) ==
    /\ rpos' = b.r.pos
    /\ io_failure' = b.r.fail
    /\ visited' = visited \o b.visits
    /\ eos_calls' = eos_calls \o b.eos
    /\ retval' = IF b.done THEN b.retval ELSE retval
    /\ pstate' = IF b.done THEN "done" ELSE "loop"
    /\ threadids' = IF b.done THEN {} ELSE b.tmap
    /\ symframes' = IF b.done THEN {} ELSE b.map
    /\ next_mapped_threadid' = b.next

\* one iteration of the while loop of process_tracelog
process_tracelog ==
    /\ pstate = "loop"
    /\ IF io_failure
       THEN /\ eos_calls' = Append(eos_calls, <<FALSE, 0>>)
            /\ retval' = 0
            /\ pstate' = "done"
            /\ threadids' = {}
            /\ symframes' = {}
            /\ UNCHANGED <<rpos, io_failure, visited, progress, next_mapped_threadid>>
       ELSE /\ progress' = Append(progress, <<rpos, TRUE>>)
            /\ AfterLoopBody(LoopBody(rd_IO_EVENTENUM([pos |-> rpos, fail |-> FALSE])))
    /\ UNCHANGED <<labelmaps, label_visits, recVars, notCodec>>

\* visit_progress returns false and the loop reads the next event all the same
visit_progress_ignored ==
    /\ pstate = "loop"
    /\ ~io_failure
    /\ progress' = Append(progress, <<rpos, FALSE>>)
    /\ AfterLoopBody(LoopBody(rd_IO_EVENTENUM([pos |-> rpos, fail |-> FALSE])))
    /\ UNCHANGED <<labelmaps, label_visits, recVars, notCodec>>

\* the iteration of the while loop in which visit_progress returns false
visit_progress_cancelled ==
    /\ pstate = "loop"
    /\ ~io_failure
    /\ progress' = Append(progress, <<rpos, FALSE>>)
    /\ eos_calls' = Append(eos_calls, <<FALSE, 0>>)
    /\ retval' = -1
    /\ pstate' = "done"
    /\ threadids' = {}
    /\ symframes' = {}
    /\ UNCHANGED <<rpos, io_failure, visited, next_mapped_threadid, labelmaps, label_visits,
                   recVars, notCodec>>

\* the recording process is killed by a signal, at the latest while
\* quit_altrace_record writes the EOS event: the file holds the first n
\* bytes of what a clean exit would have left
Truncate ==
    /\ rec_open
    /\ \E n \in 0..(Len(trace) + 7) :
          trace' = SubSeq(trace \o LE32(ALEE("EOS")) \o LE32(300 * nevents), 1, n)
    /\ rec_open' = FALSE
    /\ UNCHANGED <<nevents, recorded, rec_frames, playVars, notCodec>>

\* the header the recorder writes
Header == wr_IO_UINT32(ALTRACE_LOG_FILE_MAGIC) \o wr_IO_UINT32(ALTRACE_LOG_FILE_FORMAT)

\* the player is given a file whose magic (byte 1) or format version
\* (byte 5) is not the recorder's
Foreign ==
    /\ ~rec_open
    /\ pstate = "off"
    /\ \E i \in {1, 5} :
          /\ i <= Len(trace)
          /\ trace[i] = Header[i]
          /\ trace' = [trace EXCEPT ![i] = (@ + 1) % 256]
    /\ UNCHANGED <<rec_open, nevents, recorded, rec_frames, playVars, notCodec>>

NextCodec ==
    \/ Rec_alcOpenDevice
    \/ Rec_alcMakeContextCurrent
    \/ Rec_alGetError
    \/ Rec_alListeneriv
    \/ Rec_alGetListeneriv
    \/ Rec_alBufferfv
    \/ quit_altrace_record
    \/ init_altrace_playback
    \/ process_tracelog

\* calls made from deeper in the application: stacks of up to MaxDepth frames
MaxDepth == 2

Rec_deep ==
    \E latch \in {AL_NO_ERROR, AL_INVALID_NAME} :
        RecordCallFrom("alGetError", <<latch>>, SeqsUpTo(Frames, MaxDepth))

NextSyms ==
    \/ Rec_deep
    \/ quit_altrace_record

\* the player on any file: a recorder's trace, whole, cut short or foreign,
\* and a visitor whose progress hook may cancel
NextPlay ==
    \/ Rec_alcOpenDevice
    \/ Rec_alGetError
    \/ quit_altrace_record
    \/ init_altrace_playback
    \/ process_tracelog
    \/ Truncate
    \/ Foreign
    \/ visit_progress_cancelled

(***************************************************************************)
(* SpecLabel.  The label maps of altrace_playback.c: devicelabel and       *)
(* contextlabel by handle, sourcelabel and bufferlabel by name.  A step    *)
(* decodes one complete event (every read of its body succeeds) and calls  *)
(* its visitor, which finds the label of an identity with deviceString,    *)
(* ctxString, sourceString or bufferString.  The maps themselves are made  *)
(* by the SIMPLE_MAP and HASH_MAP macros, whose definitions are not part   *)
(* of the source files; a map is taken to hold one value for a key, the    *)
(* one added last, and NULL for a key never added.                         *)
(***************************************************************************)
MaxDecodes == 3

LabelKinds == {"device", "context", "source", "buffer"}

\* handles and names an event can carry; 0 is the NULL handle, the name 0
Identities == 0..2

LabelStrings == {"NULL", "front", "rear"}

get_mapped_label(map, from) == IF from \in DOMAIN map THEN map[from] ELSE "NULL"

add_label_to_map(map, from, to) ==
    [x \in DOMAIN map \cup {from} |-> IF x = from THEN to ELSE map[x]]

\* the label ctxString, deviceString, sourceString, bufferString print
labelString(maps, kind, id) ==
    IF id # 0 THEN get_mapped_label(maps[kind], id) ELSE "NULL"

\* a delete decoder that leaves the labels of the deleted names in the map
clear_labels_none(map, ids, i) == map

\* the loop after the visitor of a delete event, from its i-th name on
RECURSIVE clear_labels(_, _, _)
clear_labels(map, ids, i) ==
    IF i > Len(ids) THEN map
    ELSE clear_labels(add_label_to_map(map, ids[i], "NULL"), ids, i + 1)

\* the visitor callback of event ev, made while the maps are maps
LabelVisit(ev, kind, ids, str, maps) ==
    [ev |-> ev, kind |-> kind, ids |-> ids, str |-> str,
     sees |-> [p \in DOMAIN ids |-> labelString(maps, kind, ids[p])]]

\* decode_alTraceBufferLabel, decode_alTraceSourceLabel,
\* decode_alcTraceDeviceLabel, decode_alcTraceContextLabel: the label goes
\* into the map, unless the identity is zero, and then the visitor runs
decode_TraceLabel(kind, id, str) ==
    /\ Len(label_visits) < MaxDecodes
    /\ LET maps == IF id # 0
                   THEN [labelmaps EXCEPT ![kind] = add_label_to_map(@, id, str)]
                   ELSE labelmaps
       IN  /\ labelmaps' = maps
           /\ label_visits' = Append(label_visits, LabelVisit("label", kind, <<id>>, str, maps))
    /\ UNCHANGED <<trace, rec_open, nevents, recorded, rec_frames, pstate, rpos, io_failure,
                   visited, eos_calls, progress, retval, threadids, next_mapped_threadid,
                   symframes, notCodec>>

\* the delete, close and destroy decoders: the visitor runs, and then the
\* labels of the identities of the event are cleared
decode_Delete(name, kind, ids) ==
    /\ Len(label_visits) < MaxDecodes
    /\ label_visits' = Append(label_visits, LabelVisit(name, kind, ids, "NULL", labelmaps))
    /\ labelmaps' = [labelmaps EXCEPT ![kind] = clear_labels(@, ids, 1)]
    /\ UNCHANGED <<trace, rec_open, nevents, recorded, rec_frames, pstate, rpos, io_failure,
                   visited, eos_calls, progress, retval, threadids, next_mapped_threadid,
                   symframes, notCodec>>

decode_alTraceBufferLabel ==
    \E name \in Identities, str \in LabelStrings : decode_TraceLabel("buffer", name, str)

decode_alTraceSourceLabel ==
    \E name \in Identities, str \in LabelStrings : decode_TraceLabel("source", name, str)

decode_alcTraceDeviceLabel ==
    \E device \in Identities, str \in LabelStrings : decode_TraceLabel("device", device, str)

decode_alcTraceContextLabel ==
    \E ctx \in Identities, str \in LabelStrings : decode_TraceLabel("context", ctx, str)

\* the device is one the application opened; the call may have failed
decode_alcCloseDevice ==
    \E device \in Identities \ {0} : decode_Delete("alcCloseDevice", "device", <<device>>)

decode_alcCaptureCloseDevice ==
    \E device \in Identities \ {0} :
        decode_Delete("alcCaptureCloseDevice", "device", <<device>>)

decode_alcDestroyContext ==
    \E ctx \in Identities \ {0} : decode_Delete("alcDestroyContext", "context", <<ctx>>)

decode_alDeleteSources ==
    \E names \in SeqsUpTo(Identities \ {0}, 2) : decode_Delete("alDeleteSources", "source", names)

decode_alDeleteBuffers ==
    \E names \in SeqsUpTo(Identities \ {0}, 2) : decode_Delete("alDeleteBuffers", "buffer", names)

\* any other decoder whose event carries a device, a context, a source name
\* or a buffer name: the maps stay as they are and the visitor runs
decode_other ==
    /\ Len(label_visits) < MaxDecodes
    /\ \E kind \in LabelKinds, id \in Identities :
           label_visits' = Append(label_visits, LabelVisit("other", kind, <<id>>, "NULL", labelmaps))
    /\ UNCHANGED <<trace, rec_open, nevents, recorded, rec_frames, pstate, rpos, io_failure,
                   visited, eos_calls, progress, retval, threadids, next_mapped_threadid,
                   symframes, labelmaps, notCodec>>

NextLabel ==
    \/ decode_alTraceBufferLabel
    \/ decode_alTraceSourceLabel
    \/ decode_alcTraceDeviceLabel
    \/ decode_alcTraceContextLabel
    \/ decode_alcCloseDevice
    \/ decode_alcCaptureCloseDevice
    \/ decode_alcDestroyContext
    \/ decode_alDeleteSources
    \/ decode_alDeleteBuffers
    \/ decode_other

(***************************************************************************)
(* SpecQuit.  The shutdown paths of altrace_record.c.  The log is open and *)
(* its header written (init_altrace_record has returned).  A thread of the *)
(* application calls wrapped entry points, each an event of two write()    *)
(* calls under the API mutex, or ends the process (_exit, or a return from *)
(* main that runs the destructor).  A write may come up short, an          *)
(* allocation may fail.  quit_altrace_record takes no mutex: it is a       *)
(* sequence of steps that other threads interleave with.  A thread that    *)
(* waits for a mutex that another thread's shutdown has destroyed waits    *)
(* for ever, unless it finds apilock already NULL.                         *)
(***************************************************************************)
notQuit == <<lockVars, codecVars, regVars, raceVars, clockVars, strVars, nameVars, detVars, bucketVars, scopeVars, againVars>>

Running == exitcode.by = 0

\* the EOS event in the log, written by the shutdown that runs on thread t
EOS(t) == <<0, t>>

\* thread t goes on as r
Goes(t, r) == thr' = [thr EXCEPT ![t] = r]

\* the call of quit_altrace_record() that is followed by _exit(42)
Fatal(t, why) ==
    Goes(t, [thr[t] EXCEPT !.pc = "quit", !.why = why, !.status = 42, !.cont = "_exit",
                           !.oom = @ \/ why = "malloc"])

\* a failed write that hands control back to the wrapper
IO_WRITE_FAIL_returns(t) ==
    Goes(t, [thr[t] EXCEPT !.why = "write"])

\* IO_WRITE_FAIL()
IO_WRITE_FAIL(t) == Fatal(t, "write")

\* the application calls alcOpenDevice on thread t: calloc comes first
call_alcOpenDevice(t) ==
    /\ Running
    /\ thr[t].pc = "app"
    /\ qcalls < MaxCalls
    /\ qcalls' = qcalls + 1
    /\ \E device \in {"NULL", "calloc"} :
           IF device = "NULL"
           THEN Goes(t, [thr[t] EXCEPT !.oom = TRUE])
           ELSE Goes(t, [thr[t] EXCEPT !.pc = "APILOCK", !.ep = "alcOpenDevice",
                                       !.seq = qcalls + 1, !.field = 0])
    /\ UNCHANGED <<logfd, fd_open, qapilock, qowner, qlog, exitcode, notQuit>>

\* the application calls entry point ep, which allocates nothing before IO_START
call_wrapped(t, ep) ==
    /\ Running
    /\ thr[t].pc = "app"
    /\ qcalls < MaxCalls
    /\ qcalls' = qcalls + 1
    /\ Goes(t, [thr[t] EXCEPT !.pc = "APILOCK", !.ep = ep, !.seq = qcalls + 1, !.field = 0])
    /\ UNCHANGED <<logfd, fd_open, qapilock, qowner, qlog, exitcode, notQuit>>

call_alIsSource(t) == call_wrapped(t, "alIsSource")

call_alGenSources(t) == call_wrapped(t, "alGenSources")

\* APILOCK(): pthread_mutex_lock(apilock) returns 0 once the mutex is free,
\* and an error when apilock is NULL
lock_APILOCK(t) ==
    /\ Running
    /\ thr[t].pc = "APILOCK"
    /\ IF qapilock
       THEN /\ qowner = 0
            /\ qowner' = t
            /\ Goes(t, [thr[t] EXCEPT !.pc = "write"])
       ELSE /\ Fatal(t, "lock")
            /\ UNCHANGED qowner
    /\ UNCHANGED <<logfd, fd_open, qapilock, qlog, qcalls, exitcode, notQuit>>

\* one write(logfd, ...) of the event: the header, then the body
write_field(t) ==
    /\ Running
    /\ thr[t].pc = "write"
    /\ \E ok \in BOOLEAN :
           IF ok /\ logfd # -1 /\ fd_open
           THEN /\ qlog' = Append(qlog, <<t, thr[t].seq>>)
                /\ Goes(t, [thr[t] EXCEPT !.field = @ + 1,
                              !.pc = IF thr[t].field = 0 THEN "write"
                                     ELSE IF thr[t].ep = "alGenSources" THEN "malloc"
                                     ELSE "APIUNLOCK"])
           ELSE /\ IO_WRITE_FAIL(t)
                /\ UNCHANGED qlog
    /\ UNCHANGED <<logfd, fd_open, qapilock, qowner, qcalls, exitcode, notQuit>>

\* malloc(sizeof (SourceWrapper)) in alGenSources
malloc_SourceWrapper(t) ==
    /\ Running
    /\ thr[t].pc = "malloc"
    /\ \E src \in {"NULL", "malloc"} :
           IF src = "NULL" THEN Fatal(t, "malloc")
           ELSE Goes(t, [thr[t] EXCEPT !.pc = "APIUNLOCK"])
    /\ UNCHANGED <<logfd, fd_open, qapilock, qowner, qlog, qcalls, exitcode, notQuit>>

\* APIUNLOCK(): the wrapper returns to the application
unlock_APIUNLOCK(t) ==
    /\ Running
    /\ thr[t].pc = "APIUNLOCK"
    /\ IF qapilock
       THEN /\ qowner' = 0
            /\ Goes(t, [thr[t] EXCEPT !.pc = "app", !.ep = "none"])
       ELSE /\ Fatal(t, "unlock")
            /\ UNCHANGED qowner
    /\ UNCHANGED <<logfd, fd_open, qapilock, qlog, qcalls, exitcode, notQuit>>

\* the application calls _exit(0) on thread t, or the process exits and the
\* destructor runs on it
app_exit(t) ==
    /\ Running
    /\ thr[t].pc = "app"
    /\ Goes(t, [thr[t] EXCEPT !.pc = "quit", !.why = "_exit", !.status = 0, !.cont = "_Exit"])
    /\ UNCHANGED <<logfd, fd_open, qapilock, qowner, qlog, qcalls, exitcode, notQuit>>

\* quit_altrace_record: const int io = logfd;
quit_read(t) ==
    /\ Running
    /\ thr[t].pc = "quit"
    /\ Goes(t, [thr[t] EXCEPT !.pc = "quit_reset", !.io = logfd])
    /\ UNCHANGED <<logfd, fd_open, qapilock, qowner, qlog, qcalls, exitcode, notQuit>>

\* quit_altrace_record: logfd = -1; apilock = NULL;
quit_reset(t) ==
    /\ Running
    /\ thr[t].pc = "quit_reset"
    /\ logfd' = -1
    /\ qapilock' = FALSE
    /\ Goes(t, [thr[t] EXCEPT !.pc = "quit_eos"])
    /\ UNCHANGED <<fd_open, qowner, qlog, qcalls, exitcode, notQuit>>

\* quit_altrace_record: if (io != -1) the two writes of the EOS event; a
\* failure is reported on stderr and nothing else
quit_eos(t) ==
    /\ Running
    /\ thr[t].pc = "quit_eos"
    /\ \E ok \in BOOLEAN :
           qlog' = IF thr[t].io # -1 /\ ok /\ fd_open THEN Append(qlog, EOS(t)) ELSE qlog
    /\ Goes(t, [thr[t] EXCEPT !.pc = "quit_close"])
    /\ UNCHANGED <<logfd, fd_open, qapilock, qowner, qcalls, exitcode, notQuit>>

\* quit_altrace_record: if (io != -1) close(io); the rest of the function
quit_close(t) ==
    /\ Running
    /\ thr[t].pc = "quit_close"
    /\ fd_open' = (fd_open /\ thr[t].io = -1)
    /\ Goes(t, [thr[t] EXCEPT !.pc = "quit_done"])
    /\ UNCHANGED <<logfd, qapilock, qowner, qlog, qcalls, exitcode, notQuit>>

\* quit_altrace_record returns: to a fatal path, which calls the overridden
\* _exit(42), or to _exit, which calls _Exit(status)
quit_done(t) ==
    /\ Running
    /\ thr[t].pc = "quit_done"
    /\ IF thr[t].cont = "_exit"
       THEN /\ Goes(t, [thr[t] EXCEPT !.pc = "quit", !.cont = "_Exit"])
            /\ UNCHANGED exitcode
       ELSE /\ exitcode' = [by |-> t, status |-> thr[t].status]
            /\ Goes(t, [thr[t] EXCEPT !.pc = "_Exit"])
    /\ UNCHANGED <<logfd, fd_open, qapilock, qowner, qlog, qcalls, notQuit>>

NextQuit ==
    \/ \E t \in 1..NThreads : call_alcOpenDevice(t)
    \/ \E t \in 1..NThreads : call_alIsSource(t)
    \/ \E t \in 1..NThreads : call_alGenSources(t)
    \/ \E t \in 1..NThreads : lock_APILOCK(t)
    \/ \E t \in 1..NThreads : write_field(t)
    \/ \E t \in 1..NThreads : malloc_SourceWrapper(t)
    \/ \E t \in 1..NThreads : unlock_APIUNLOCK(t)
    \/ \E t \in 1..NThreads : app_exit(t)
    \/ \E t \in 1..NThreads : quit_read(t)
    \/ \E t \in 1..NThreads : quit_reset(t)
    \/ \E t \in 1..NThreads : quit_eos(t)
    \/ \E t \in 1..NThreads : quit_close(t)
    \/ \E t \in 1..NThreads : quit_done(t)

(***************************************************************************)
(* SpecRace.  alGenSources, alDeleteSources and alcMakeContextCurrent      *)
(* called from several threads, with the steps of a wrapper that lie       *)
(* outside the API mutex kept apart from its critical section: the copy    *)
(* "ContextWrapper *ctx = current_context" that the first two make on      *)
(* entry, and the call of REAL_alGenSources.  Two contexts exist; the      *)
(* source names all fall into one hash bucket, kept as the chain from its  *)
(* head on.                                                                *)
(***************************************************************************)
notRace == <<lockVars, codecVars, regVars, quitVars, clockVars, strVars, nameVars, detVars, bucketVars, scopeVars, againVars>>

RaceContexts == {1, 2}

\* thread t goes on as r
RaceGoes(t, r) == rthr' = [rthr EXCEPT ![t] = r]

\* alGenSources(1, names): ctx = current_context; the real call comes next
enter_alGenSources(t) ==
    /\ rthr[t].pc = "app"
    /\ rcalls < MaxCalls
    /\ rcalls' = rcalls + 1
    /\ RaceGoes(t, [pc |-> "REAL", ep |-> "alGenSources", ctx |-> rcurrent, arg |-> 0])
    /\ UNCHANGED <<rowner, rcurrent, buckets, touched, rnames, notRace>>

\* REAL_alGenSources(1, names) hands out a new name; IO_START comes next
real_alGenSources(t) ==
    /\ rthr[t].pc = "REAL"
    /\ rnames' = rnames + 1
    /\ RaceGoes(t, [rthr[t] EXCEPT !.pc = "APILOCK", !.arg = rnames + 1])
    /\ UNCHANGED <<rowner, rcurrent, buckets, touched, rcalls, notRace>>

\* alDeleteSources(1, &name): ctx = current_context; IO_START comes next
enter_alDeleteSources(t) ==
    /\ rthr[t].pc = "app"
    /\ rcalls < MaxCalls
    /\ rcalls' = rcalls + 1
    /\ \E name \in 1..rnames :
           RaceGoes(t, [pc |-> "APILOCK", ep |-> "alDeleteSources", ctx |-> rcurrent,
                        arg |-> name])
    /\ UNCHANGED <<rowner, rcurrent, buckets, touched, rnames, notRace>>

\* alcMakeContextCurrent(ctx): IO_START comes next
enter_alcMakeContextCurrent(t) ==
    /\ rthr[t].pc = "app"
    /\ rcalls < MaxCalls
    /\ rcalls' = rcalls + 1
    /\ \E c \in RaceContexts \cup {0} :
           RaceGoes(t, [pc |-> "APILOCK", ep |-> "alcMakeContextCurrent", ctx |-> 0,
                        arg |-> c])
    /\ UNCHANGED <<rowner, rcurrent, buckets, touched, rnames, notRace>>

\* IO_START: APILOCK()
race_APILOCK(t) ==
    /\ rthr[t].pc = "APILOCK"
    /\ rowner = 0
    /\ rowner' = t
    /\ RaceGoes(t, [rthr[t] EXCEPT !.pc = "locked"])
    /\ UNCHANGED <<rcurrent, buckets, touched, rcalls, rnames, notRace>>

\* the position of name in the chain, 0 when it is not there
ChainIndex(chain, name) ==
    IF \E k \in DOMAIN chain : chain[k] = name
    THEN CHOOSE k \in DOMAIN chain : chain[k] = name /\ \A j \in 1..(k - 1) : chain[j] # name
    ELSE 0

WithoutIndex(chain, k) == SubSeq(chain, 1, k - 1) \o SubSeq(chain, k + 1, Len(chain))

\* alGenSources under the mutex: if (ctx) the record goes to the head of
\* the bucket of ctx
gen_insert(ctx, name) ==
    IF ctx = 0 THEN buckets ELSE [buckets EXCEPT ![ctx] = <<name>> \o @]

\* alDeleteSources under the mutex: source_wrapped_lookup finds the record
\* in the bucket of current_context; a record that has a hash_prev is
\* unlinked where it is, for one that has none the head of the bucket of
\* ctx is set to its hash_next
delete_unlink(ctx, name) ==
    LET chain == IF rcurrent = 0 THEN <<>> ELSE buckets[rcurrent]
        k     == ChainIndex(chain, name)
    IN  IF ctx = 0 \/ k = 0 THEN buckets
        ELSE IF k > 1 THEN [buckets EXCEPT ![rcurrent] = WithoutIndex(chain, k)]
        ELSE [buckets EXCEPT ![ctx] = Tail(chain)]

\* the critical section of the wrapper, up to and with APIUNLOCK(); touched
\* keeps which bucket it wrote, or left out, and what current_context was
race_body(t) ==
    /\ rthr[t].pc = "locked"
    /\ rowner' = 0
    /\ RaceGoes(t, [pc |-> "app", ep |-> "none", ctx |-> 0, arg |-> 0])
    /\ IF rthr[t].ep = "alcMakeContextCurrent"
       THEN /\ rcurrent' = rthr[t].arg
            /\ UNCHANGED <<buckets, touched>>
       ELSE /\ buckets' = IF rthr[t].ep = "alGenSources"
                          THEN gen_insert(rthr[t].ctx, rthr[t].arg)
                          ELSE delete_unlink(rthr[t].ctx, rthr[t].arg)
            /\ touched' = [ep |-> rthr[t].ep, ctx |-> rthr[t].ctx, current |-> rcurrent]
            /\ UNCHANGED rcurrent
    /\ UNCHANGED <<rcalls, rnames, notRace>>

NextRace ==
    \/ \E t \in 1..NThreads : enter_alGenSources(t)
    \/ \E t \in 1..NThreads : real_alGenSources(t)
    \/ \E t \in 1..NThreads : enter_alDeleteSources(t)
    \/ \E t \in 1..NThreads : enter_alcMakeContextCurrent(t)
    \/ \E t \in 1..NThreads : race_APILOCK(t)
    \/ \E t \in 1..NThreads : race_body(t)

(***************************************************************************)
(* SpecClock.  The threads and the API mutex of SpecLock, with the clock:  *)
(* IO_ENTRYINFO first reads now() into currentms and later writes it into  *)
(* the header of the call event.  now() is defined outside the source      *)
(* files; it is taken to be a clock that never goes back.                  *)
(***************************************************************************)
MaxClock == 2

notClock == <<codecVars, regVars, quitVars, raceVars, strVars, nameVars, detVars, bucketVars, scopeVars, againVars>>

\* time passes
Tick ==
    /\ clock < MaxClock
    /\ clock' = clock + 1
    /\ UNCHANGED <<tms, stamps, lockVars, notClock>>

now == clock

\* IO_ENTRYINFO: const uint32 currentms = now(); backtrace and symbols follow
IO_ENTRYINFO_now(t) ==
    /\ tpc[t] = "IO_ENTRYINFO"
    /\ tms' = [tms EXCEPT ![t] = now]
    /\ tpc' = [tpc EXCEPT ![t] = "header"]
    /\ UNCHANGED <<clock, stamps, apilock, tep, tseq, ncalls, wlog, notClock>>

\* IO_ENTRYINFO: the optional new-callstack-symbols event, then the header
\* of the call event with IO_UINT32(currentms) in it
IO_ENTRYINFO_header(t) ==
    /\ tpc[t] = "header"
    /\ \E newsyms \in 0..1 : LogWrite(t, newsyms + 1)
    /\ stamps' = Append(stamps, <<t, tms[t]>>)
    /\ tpc' = [tpc EXCEPT ![t] = "args"]
    /\ UNCHANGED <<clock, tms, apilock, tep, tseq, ncalls, notClock>>

NextClock ==
    \/ Tick
    \/ \E t \in Threads, ep \in EntryPoints : Enter(t, ep)
    \/ \E t \in Threads : APILOCK(t)
    \/ \E t \in Threads : IO_ENTRYINFO_now(t)
    \/ \E t \in Threads : IO_ENTRYINFO_header(t)
    \/ \E t \in Threads : WriteArgs(t)
    \/ \E t \in Threads : ReturnReal(t)
    \/ \E t \in Threads : WriteRets(t)
    \/ \E t \in Threads : IO_END(t)
    \/ \E t \in Threads : APIUNLOCK(t)

(***************************************************************************)
(* SpecString.  Strings through the codec: the recorder's IO_STRING        *)
(* appends the encoding of a C string, or of NULL, to the file, which      *)
(* holds the header; the player's IO_STRING reads the next one back.  A C  *)
(* string holds no zero byte.                                              *)
(***************************************************************************)
MaxStrings == 2

notString == <<rec_open, nevents, recorded, rec_frames, playVars, lockVars, regVars,
               quitVars, raceVars, clockVars, nameVars, detVars, bucketVars, scopeVars, againVars>>

CStrings == {NullStr} \cup {Str(b) : b \in SeqsUpTo({1, 255}, 2)}

\* the recorder calls IO_STRING(str)
record_IO_STRING ==
    /\ Len(str_written) < MaxStrings
    /\ \E str \in CStrings :
           /\ trace' = trace \o wr_IO_STRING(str)
           /\ str_written' = Append(str_written, str)
    /\ UNCHANGED <<str_read, sread, notString>>

\* the player calls IO_STRING() where a string was written
play_IO_STRING ==
    /\ Len(str_read) < Len(str_written)
    /\ LET got == rd_IO_STRING(sread)
       IN  /\ str_read' = Append(str_read, got.v)
           /\ sread' = got.r
    /\ UNCHANGED <<trace, str_written, notString>>

NextString == record_IO_STRING \/ play_IO_STRING

(***************************************************************************)
(* SpecName.  choose_tracefile_name in a directory that holds some of the  *)
(* files <procname>.altrace, <procname>.1.altrace, ...  A file is there or *)
(* not, and a file that is there can be opened for reading or not (its     *)
(* permission bits).  The directory is filled before the recorder starts.  *)
(***************************************************************************)
notName == <<lockVars, codecVars, regVars, quitVars, raceVars, clockVars, strVars, detVars, bucketVars, scopeVars, againVars>>

\* something puts a file into the directory
create_file ==
    /\ chosen = -1
    /\ \E n \in 0..MaxFiles, mode \in {"readable", "unreadable"} :
           /\ files[n] = "absent"
           /\ files' = [files EXCEPT ![n] = mode]
    /\ UNCHANGED <<chosen, notName>>

\* fopen(retval, "rb") of the name numbered n
fopen_rb(n) == n \in DOMAIN files /\ files[n] = "readable"

\* the while loop of choose_tracefile_name with retval the name numbered n
RECURSIVE choose_from(_)
choose_from(n) == IF ~fopen_rb(n) THEN n ELSE choose_from(n + 1)

\* init_altrace_record calls choose_tracefile_name
choose_tracefile_name ==
    /\ chosen = -1
    /\ chosen' = choose_from(0)
    /\ UNCHANGED <<files, notName>>

NextName == create_file \/ choose_tracefile_name

(***************************************************************************)
(* SpecDetect.  check_source_state on one source: each check queries the   *)
(* properties in turn and compares what the real library answers with the  *)
(* shadow.  The answers are whatever the application and the mixer have    *)
(* made of the source since the check before.  Of the properties, the      *)
(* model keeps one for each kind of checker: AL_BUFFERS_QUEUED (int),      *)
(* AL_LOOPING (bool), AL_GAIN (float) and AL_POSITION (three floats).  A   *)
(* float is its bit pattern: both zeroes, one and a NaN.                   *)
(***************************************************************************)
notDetect == <<lockVars, codecVars, regVars, quitVars, raceVars, clockVars, strVars,
               nameVars, bucketVars, scopeVars, againVars>>

SourceProps == {"AL_BUFFERS_QUEUED", "AL_LOOPING", "AL_GAIN", "AL_POSITION"}

Floats == {"0.0", "-0.0", "1.0", "NaN"}

Float3s == {<<x, "0.0", "0.0">> : x \in {"0.0", "NaN"}}

\* what the real library can answer for a property
RealValues(p) ==
    CASE p = "AL_BUFFERS_QUEUED" -> 0..1
      [] p = "AL_LOOPING" -> 0..2
      [] p = "AL_GAIN" -> Floats
      [] p = "AL_POSITION" -> Float3s

\* the shadow of a source after init_source_state: zeroes, gain 1.0f
init_source_state ==
    [p \in SourceProps |->
        CASE p = "AL_BUFFERS_QUEUED" -> 0
          [] p = "AL_LOOPING" -> 0
          [] p = "AL_GAIN" -> "1.0"
          [] p = "AL_POSITION" -> <<"0.0", "0.0", "0.0">>]

\* a != b of two floats: a NaN differs from everything, the zeroes are equal
float_ne(a, b) == a = "NaN" \/ b = "NaN" \/ (a # b /\ {a, b} # {"0.0", "-0.0"})

\* memcmp(a, b, size) != 0
memcmp_ne(a, b) == a # b

\* the body of a checker that got newval for param p, differs telling
\* whether the comparison of the checker found a difference
changed(d, p, got, newval, differs) ==
    LET q == [d EXCEPT !.queried[p] = <<got>>]
    IN  IF differs
        THEN [q EXCEPT !.emitted = Append(@, <<p, newval>>), !.shadow[p] = newval]
        ELSE q

check_source_state_int(d, r, p) == changed(d, p, r[p], r[p], r[p] # d.shadow[p])

check_source_state_bool(d, r, p) ==
    LET newval == IF r[p] # 0 THEN 1 ELSE 0
    IN  changed(d, p, r[p], newval, newval # d.shadow[p])

check_source_state_float(d, r, p) == changed(d, p, r[p], r[p], float_ne(r[p], d.shadow[p]))

check_source_state_float3(d, r, p) == changed(d, p, r[p], r[p], memcmp_ne(r[p], d.shadow[p]))

\* check_source_state, the properties in its order
check_source_state_all(d, r) ==
    check_source_state_float3(
        check_source_state_float(
            check_source_state_bool(
                check_source_state_int(d, r, "AL_BUFFERS_QUEUED"),
                r, "AL_LOOPING"),
            r, "AL_GAIN"),
        r, "AL_POSITION")

\* the answers the real library can give to one check
RealAnswers ==
    {[p \in SourceProps |->
         CASE p = "AL_BUFFERS_QUEUED" -> q
           [] p = "AL_LOOPING" -> l
           [] p = "AL_GAIN" -> g
           [] p = "AL_POSITION" -> x] :
       q \in RealValues("AL_BUFFERS_QUEUED"), l \in RealValues("AL_LOOPING"),
       g \in RealValues("AL_GAIN"), x \in RealValues("AL_POSITION")}

\* a wrapped call ends and checks the source
check_source_state_pass ==
    /\ det.checks < MaxChecks
    /\ \E r \in RealAnswers :
           det' = [check_source_state_all(det, r) EXCEPT !.checks = @ + 1]
    /\ UNCHANGED notDetect

NextDetect == check_source_state_pass

(***************************************************************************)
(* Spec, SpecSrc.  The shadow registry of altrace_record.c: the device     *)
(* list hanging off null_device, each device's context list, each          *)
(* context's sources and playlist, the error latches, and the real OpenAL  *)
(* library underneath.  A wrapped call is one step (the API mutex is held  *)
(* from IO_START to IO_END); the polling loop over a playlist in           *)
(* check_al_async_states is one step per source, because the mixer of the  *)
(* real library runs concurrently with it.                                 *)
(* Pointers are names: NULL, the address of null_device, the addresses     *)
(* calloc hands out, the handles the real library hands out.  A source     *)
(* wrapper is named by <<context, name>>; the hash table of a context is   *)
(* the set of its wrappers.                                                *)
(***************************************************************************)
MaxOps == 5

MaxPolls == 3

NULL == "NULL"

NULLSRC == <<>>

NullDevice == "null_device"

DevicePool == {"dev1", "dev2"}

ContextPool == {"ctx1", "ctx2"}

RealDevices == {"rdev1", "rdev2"}

RealContexts == {"rctx1", "rctx2"}

SourceNames == {1, 2}

AL_INVALID_ENUM == 40962

AL_OUT_OF_MEMORY == 40965

ALC_INVALID_VALUE == 40964

\* the capabilities a caller hands to alEnable: 0 is one no implementation
\* knows, 512 is one the implementation accepts
Capabilities == {0, 512}

Drop(f, k) == [x \in DOMAIN f \ {k} |-> f[x]]

Put(f, k, v) == [x \in DOMAIN f \cup {k} |-> IF x = k THEN v ELSE f[x]]

Idle == [dev |-> NULL, ctx |-> NULL, src |-> NULLSRC]

\* the recorder and the library as one value, so that the parts of a handler
\* compose; ev and pl are the events and the polls of the call so far
M(ev, pl) ==
    [devs |-> devs, ctxs |-> ctxs, srcs |-> srcs, current_context |-> current_context,
     null_context_errorlatch |-> null_context_errorlatch, real |-> real,
     events |-> ev, polled |-> pl, pass |-> Idle]

Start == M(<<>>, <<>>)

Emit(m, e) == [m EXCEPT !.events = Append(@, e)]

Commit(m) ==
    /\ devs' = m.devs
    /\ ctxs' = m.ctxs
    /\ srcs' = m.srcs
    /\ current_context' = m.current_context
    /\ null_context_errorlatch' = m.null_context_errorlatch
    /\ real' = m.real
    /\ events' = m.events
    /\ polled' = m.polled
    /\ pass' = m.pass

\* the wrapper returns ret to the application, having written rec to the trace
Return(name, args, ret, rec, m) ==
    /\ Commit(m)
    /\ last' = [name |-> name, args |-> args, ret |-> ret, rec |-> rec]
    /\ nops' = nops + 1
    /\ UNCHANGED <<lockVars, codecVars, moreVars>>

(***************************************************************************)
(* The real library.  AL keeps the first error of a context until          *)
(* alGetError; ALC keeps the last error of a device.                       *)
(***************************************************************************)
SetALError(r, err) ==
    IF r.current = NULL THEN r
    ELSE [r EXCEPT !.alerr[r.current] = IF @ = AL_NO_ERROR THEN err ELSE @]

SetALCError(r, rdev, err) == [r EXCEPT !.alcerr[rdev] = err]

REAL_alGetError(r) == IF r.current = NULL THEN AL_NO_ERROR ELSE r.alerr[r.current]

RealSourceValid(r, name) == r.current # NULL /\ <<r.current, name>> \in DOMAIN r.src

\* the value left in ival: untouched (0) when the real call fails
REAL_alGetSourcei(r, name) ==
    IF RealSourceValid(r, name) THEN r.src[<<r.current, name>>] ELSE 0

NameChecked(r, name) ==
    IF RealSourceValid(r, name) THEN r ELSE SetALError(r, AL_INVALID_NAME)

SourceStateSet(r, name, from, to) ==
    IF ~RealSourceValid(r, name) THEN SetALError(r, AL_INVALID_NAME)
    ELSE IF r.src[<<r.current, name>>] \in from THEN [r EXCEPT !.src[<<r.current, name>>] = to]
    ELSE r

REAL_alSourcePlay(r, name) ==
    SourceStateSet(r, name, {AL_INITIAL, AL_PLAYING, AL_PAUSED, AL_STOPPED}, AL_PLAYING)

REAL_alSourcePause(r, name) == SourceStateSet(r, name, {AL_PLAYING}, AL_PAUSED)

REAL_alSourceStop(r, name) == SourceStateSet(r, name, {AL_PLAYING, AL_PAUSED}, AL_STOPPED)

REAL_alSourceRewind(r, name) ==
    SourceStateSet(r, name, {AL_PLAYING, AL_PAUSED, AL_STOPPED}, AL_INITIAL)

REAL_alEnable(r, capability) ==
    IF capability # 0 THEN r ELSE SetALError(r, AL_INVALID_ENUM)

REAL_alDeleteSources(r, name) ==
    IF RealSourceValid(r, name) THEN [r EXCEPT !.src = Drop(@, <<r.current, name>>)]
    ELSE SetALError(r, AL_INVALID_NAME)

RealFreeNames(r) == {n \in SourceNames : <<r.current, n>> \notin DOMAIN r.src}

REAL_alGenSources(r, name) ==
    IF r.current = NULL THEN r
    ELSE IF name = 0 THEN SetALError(r, AL_OUT_OF_MEMORY)
    ELSE [r EXCEPT !.src = Put(@, <<r.current, name>>, AL_INITIAL)]

RealContextsOf(r, rdev) == {c \in DOMAIN r.ctxdev : r.ctxdev[c] = rdev}

\* the real library names a new object by a handle that is not in use, and
\* fails when it has none left; handles are only compared for equality, so
\* the model takes a fixed one
Fresh(pool, used) == IF pool \ used = {} THEN NULL ELSE CHOOSE x \in pool \ used : TRUE

REAL_alcOpenDevice(r, rdev) ==
    [r EXCEPT !.open = @ \cup {rdev}, !.connected = @ \cup {rdev},
              !.alcerr[rdev] = ALC_NO_ERROR]

\* closing fails on a handle that is no open playback device, and on a
\* device that still has contexts
REAL_alcCloseDevice_ok(r, rdev) ==
    /\ rdev \in r.open \ r.capture
    /\ RealContextsOf(r, rdev) = {}

REAL_alcCloseDevice(r, rdev) ==
    IF REAL_alcCloseDevice_ok(r, rdev)
    THEN [r EXCEPT !.open = @ \ {rdev}, !.connected = @ \ {rdev}]
    ELSE SetALCError(r, IF rdev \in r.open THEN rdev ELSE NULL, ALC_INVALID_DEVICE)

REAL_alcCreateContext(r, rdev, rctx) ==
    IF rctx = NULL THEN SetALCError(r, rdev, ALC_INVALID_VALUE)
    ELSE [r EXCEPT !.ctxdev = Put(@, rctx, rdev), !.alerr[rctx] = AL_NO_ERROR]

REAL_alcMakeContextCurrent(r, rctx) == [r EXCEPT !.current = rctx]

\* destroying NULL fails; destroying the current context fails in a library
\* that follows the OpenAL 1.1 text and releases it in one that does not (ok)
REAL_alcDestroyContext(r, rctx, ok) ==
    IF rctx = NULL THEN SetALCError(r, NULL, ALC_INVALID_CONTEXT)
    ELSE IF ~ok THEN SetALCError(r, r.ctxdev[rctx], ALC_INVALID_CONTEXT)
    ELSE [r EXCEPT !.ctxdev = Drop(@, rctx),
                   !.src = [s \in {x \in DOMAIN @ : x[1] # rctx} |-> @[s]],
                   !.current = IF @ = rctx THEN NULL ELSE @]

(***************************************************************************)
(* The tail of every wrapped call: the error check, then the polling pass. *)
(***************************************************************************)
LatchLast(latch, err) == err

\* the latch keeps the first error since it was last read
LatchFirst(latch, err) == IF latch = AL_NO_ERROR THEN err ELSE latch

check_al_error_events_got(m, alerr) ==
    IF alerr = AL_NO_ERROR THEN m
    ELSE [Emit(m, <<"ALERROR_TRIGGERED", alerr>>)
             EXCEPT !.real.alerr[m.real.current] = AL_NO_ERROR,
                    !.ctxs[m.current_context].errorlatch = LatchFirst(@, alerr)]

\* a check that reports the error and leaves it in the real library
check_al_error_events_unread(m) ==
    IF m.current_context = NULL \/ REAL_alGetError(m.real) = AL_NO_ERROR THEN m
    ELSE [Emit(m, <<"ALERROR_TRIGGERED", REAL_alGetError(m.real)>>)
             EXCEPT !.ctxs[m.current_context].errorlatch =
                        LatchFirst(@, REAL_alGetError(m.real))]

check_al_error_events(m) ==
    IF m.current_context = NULL THEN m
    ELSE check_al_error_events_got(m, REAL_alGetError(m.real))

\* what check_al_error_events returns
al_error_checked(m) ==
    IF m.current_context = NULL THEN AL_NO_ERROR ELSE REAL_alGetError(m.real)

check_alc_error_events_got(m, device, alcerr) ==
    IF alcerr = ALC_NO_ERROR THEN m
    ELSE [Emit(m, <<"ALCERROR_TRIGGERED", device, alcerr>>)
             EXCEPT !.real.alcerr[m.devs[device].device] = ALC_NO_ERROR,
                    !.devs[device].errorlatch = LatchFirst(@, alcerr)]

check_alc_error_events(m, device) ==
    IF device = NULL THEN m
    ELSE check_alc_error_events_got(m, device, m.real.alcerr[m.devs[device].device])

\* check_alc_error_events on a wrapper that was just freed: the handle it
\* reads and the latch it writes are freed memory, so the error it reports,
\* if any, is arbitrary and the latch is nobody's
check_alc_error_events_freed(m, device, alcerr) ==
    IF alcerr = ALC_NO_ERROR THEN m ELSE Emit(m, <<"ALCERROR_TRIGGERED", device, alcerr>>)

\* the detector without its assignment *current = newval
check_device_state_bool_stale(m, device, newval) ==
    IF newval # m.devs[device].connected
    THEN Emit(m, <<"DEVICE_STATE_CHANGED_BOOL", device, ALC_CONNECTED, newval>>)
    ELSE m

check_device_state_bool_got(m, device, newval) ==
    IF newval # m.devs[device].connected
    THEN [Emit(m, <<"DEVICE_STATE_CHANGED_BOOL", device, ALC_CONNECTED, newval>>)
             EXCEPT !.devs[device].connected = newval]
    ELSE m

check_device_state_bool(m, device) ==
    check_device_state_bool_got(m, device, m.devs[device].device \in m.real.connected)

check_device_state_int_got(m, device, ival) ==
    IF ival # m.devs[device].capture_samples
    THEN [Emit(m, <<"DEVICE_STATE_CHANGED_INT", device, ALC_CAPTURE_SAMPLES, ival>>)
             EXCEPT !.devs[device].capture_samples = ival]
    ELSE m

check_device_state_int(m, device) ==
    check_device_state_int_got(m, device,
                               IF m.devs[device].device \in m.real.samples THEN 1 ELSE 0)

\* of the properties check_source_state polls, the model keeps
\* AL_SOURCE_STATE, the one the playlist depends on
check_source_state_enum_got(m, src, newval) ==
    IF newval # m.srcs[src].state
    THEN [Emit(m, <<"SOURCE_STATE_CHANGED_ENUM", m.srcs[src].name, AL_SOURCE_STATE, newval>>)
             EXCEPT !.srcs[src].state = newval]
    ELSE m

check_source_state_enum(m, src) ==
    check_source_state_enum_got([m EXCEPT !.real = NameChecked(@, m.srcs[src].name)], src,
                                REAL_alGetSourcei(m.real, m.srcs[src].name))

check_source_state(m, src) ==
    IF src = NULLSRC THEN m ELSE check_source_state_enum(m, src)

source_wrapped_lookup(m, name) ==
    IF m.current_context # NULL /\ name # 0 /\ <<m.current_context, name>> \in DOMAIN m.srcs
    THEN <<m.current_context, name>>
    ELSE NULLSRC

check_source_state_from_name(m, name) == check_source_state(m, source_wrapped_lookup(m, name))

RECURSIVE EnterDevice(_, _), AfterDeviceChecks(_, _), EnterContext(_, _, _)
\* check_al_async_states up to the next source it has to poll
EnterDevice(m, device) ==
    IF device = NULL THEN [m EXCEPT !.pass = Idle]
    ELSE AfterDeviceChecks(IF m.devs[device].supports_disconnect_ext
                           THEN check_device_state_bool(m, device) ELSE m, device)

AfterDeviceChecks(m, device) ==
    IF m.devs[device].iscapture
    THEN EnterDevice(check_device_state_int(m, device), m.devs[device].next)
    ELSE EnterContext(m, device, m.devs[device].contexts)

EnterContext(m, device, ctx) ==
    IF ctx = NULL THEN EnterDevice(m, m.devs[device].next)
    ELSE IF m.ctxs[ctx].playlist # NULLSRC
    THEN [m EXCEPT !.pass = [dev |-> device, ctx |-> ctx, src |-> m.ctxs[ctx].playlist]]
    ELSE EnterContext(m, device, m.ctxs[ctx].next)

check_al_async_states(m) == EnterDevice(m, m.devs[NullDevice].next)

IO_END_AL(m) == check_al_async_states(check_al_error_events(m))

IO_END_ALC(m, dev) == check_al_async_states(check_alc_error_events(m, dev))

\* the three assignments that take src out of the playlist of ctx
unlink_next(m, src, next) ==
    IF next # NULLSRC
    THEN [m EXCEPT !.srcs[next].playlist_prev = m.srcs[src].playlist_prev]
    ELSE m

unlink_prev(m, ctx, src, next) ==
    IF m.srcs[src].playlist_prev # NULLSRC
    THEN [m EXCEPT !.srcs[m.srcs[src].playlist_prev].playlist_next = next]
    ELSE [m EXCEPT !.ctxs[ctx].playlist = next]

unlink_self(m, src) ==
    [m EXCEPT !.srcs[src].playlist_prev = NULLSRC, !.srcs[src].playlist_next = NULLSRC]

\* a polling loop that leaves a source that stopped playing where it is
playlist_unlink_none(m, ctx, src, next) == m

playlist_unlink(m, ctx, src, next) ==
    unlink_self(unlink_prev(unlink_next(m, src, next), ctx, src, next), src)

poll_advance(m, device, ctx, next) ==
    IF next # NULLSRC THEN [m EXCEPT !.pass = [dev |-> device, ctx |-> ctx, src |-> next]]
    ELSE EnterContext(m, device, m.ctxs[ctx].next)

poll_checked(m, device, ctx, src, next) ==
    poll_advance(IF m.srcs[src].state # AL_PLAYING THEN playlist_unlink(m, ctx, src, next)
                 ELSE m,
                 device, ctx, next)

\* one iteration of the loop over ctx->playlist
poll_iteration(m, device, ctx, src, next) ==
    poll_checked(check_source_state([m EXCEPT !.polled = Append(@, m.srcs[src].name)], src),
                 device, ctx, src, next)

PollSource ==
    /\ pass.src # NULLSRC
    /\ Len(polled) < MaxPolls
    /\ Commit(poll_iteration(M(events, polled), pass.dev, pass.ctx, pass.src,
                             srcs[pass.src].playlist_next))
    /\ UNCHANGED <<last, nops, lockVars, codecVars, moreVars>>

\* the mixer of the real library finishes a playing source
Mixer ==
    /\ \E s \in DOMAIN real.src :
          /\ real.src[s] = AL_PLAYING
          /\ real' = [real EXCEPT !.src[s] = AL_STOPPED]
    /\ UNCHANGED <<devs, ctxs, srcs, current_context, null_context_errorlatch, events,
                   polled, pass, last, nops, lockVars, codecVars, moreVars>>

\* the hardware behind an open device goes away
Disconnect ==
    /\ \E rdev \in real.connected : real' = [real EXCEPT !.connected = @ \ {rdev}]
    /\ UNCHANGED <<devs, ctxs, srcs, current_context, null_context_errorlatch, events,
                   polled, pass, last, nops, lockVars, codecVars, moreVars>>


(***************************************************************************)
(* The wrapped entry points.                                               *)
(***************************************************************************)
\* no call is in progress and the bound of the model allows one more
ALCReady == pass = Idle /\ nops < MaxOps

\* an AL wrapper dereferences current_context: the application makes AL
\* calls only while that pointer is NULL or a live context
ALReady == ALCReady /\ current_context \in DOMAIN ctxs \cup {NULL}

FreshDevice(rv, ext) ==
    [device |-> rv, errorlatch |-> ALC_NO_ERROR, iscapture |-> FALSE,
     connected |-> TRUE, supports_disconnect_ext |-> ext, capture_samples |-> 0,
     contexts |-> NULL, prev |-> NullDevice, next |-> devs[NullDevice].next]

link_device_next(m, device) ==
    IF m.devs[device].next # NULL
    THEN [m EXCEPT !.devs[m.devs[device].next].prev = device]
    ELSE m

open_linked(m, device, rv, ext) ==
    link_device_next([m EXCEPT !.devs = Put(@, device, FreshDevice(rv, ext)),
                               !.devs[NullDevice].next = device,
                               !.real = REAL_alcOpenDevice(@, rv)],
                     device)

\* device is what calloc returned, rv what the real call returned, ext the
\* real answer about ALC_EXT_disconnect.  When rv is NULL the wrapper is
\* freed and then used: the tail reads it (alcerr) and the freed pointer is
\* returned (ret).
alcOpenDevice ==
    /\ ALCReady
    /\ \E device \in DevicePool \ DOMAIN devs :
       \E rv \in {Fresh(RealDevices, real.open), NULL} :
          IF rv = NULL
          THEN \E alcerr \in {ALC_NO_ERROR, ALC_INVALID_DEVICE} :
               \E ret \in {device, NULL} :
                  Return("alcOpenDevice", <<>>, ret, NULL,
                         check_al_async_states(
                             check_alc_error_events_freed(Start, device, alcerr)))
          ELSE \E ext \in BOOLEAN :
                  Return("alcOpenDevice", <<>>, device, device,
                         IO_END_ALC(open_linked(Start, device, rv, ext), device))

unlink_device_next(m, device) ==
    IF m.devs[device].next # NULL
    THEN [m EXCEPT !.devs[m.devs[device].next].prev = m.devs[device].prev]
    ELSE m

unlink_device_prev(m, device) ==
    IF m.devs[device].prev # NULL
    THEN [m EXCEPT !.devs[m.devs[device].prev].next = m.devs[device].next]
    ELSE m

close_unlinked(m, device) ==
    IF device # NullDevice
    THEN [unlink_device_prev(unlink_device_next(m, device), device)
             EXCEPT !.devs = Drop(@, device)]
    ELSE m

close_body(m, device, rv) ==
    IF rv
    THEN close_unlinked([m EXCEPT !.real = REAL_alcCloseDevice(@, m.devs[device].device)],
                        device)
    ELSE [m EXCEPT !.real = REAL_alcCloseDevice(@, m.devs[device].device)]

close_returning(_device, device, rv) ==
    Return("alcCloseDevice", <<_device>>, rv, rv,
           IO_END_ALC(close_body(Start, device, rv), IF rv THEN NULL ELSE device))

alcCloseDevice ==
    /\ ALCReady
    /\ \E _device \in (DOMAIN devs \ {NullDevice}) \cup {NULL} :
          close_returning(_device, IF _device # NULL THEN _device ELSE NullDevice,
                          REAL_alcCloseDevice_ok(real,
                              IF _device # NULL THEN devs[_device].device ELSE NULL))

FreshContext(rv, device) ==
    [ctx |-> rv, device |-> device, errorlatch |-> AL_NO_ERROR,
     checked_static_state |-> FALSE, playlist |-> NULLSRC,
     prev |-> NULL, next |-> devs[device].contexts]

link_context_next(m, ctx) ==
    IF m.ctxs[ctx].next # NULL
    THEN [m EXCEPT !.ctxs[m.ctxs[ctx].next].prev = ctx]
    ELSE m

create_body(m, device, ctx, rv) ==
    IF rv = NULL
    THEN [m EXCEPT !.real = REAL_alcCreateContext(@, m.devs[device].device, NULL)]
    ELSE link_context_next(
             [m EXCEPT !.real = REAL_alcCreateContext(@, m.devs[device].device, rv),
                       !.ctxs = Put(@, ctx, FreshContext(rv, device)),
                       !.devs[device].contexts = ctx],
             ctx)

\* ctx is what calloc returned, rv what the real call returned; when
\* rv is NULL the freed pointer ctx is returned
alcCreateContext ==
    /\ ALCReady
    /\ \E _device \in DOMAIN devs \ {NullDevice} :
       \E ctx \in ContextPool \ DOMAIN ctxs :
       \E rv \in {IF devs[_device].iscapture THEN NULL
                   ELSE Fresh(RealContexts, DOMAIN real.ctxdev), NULL} :
       \E ret \in (IF rv = NULL THEN {ctx, NULL} ELSE {ctx}) :
          Return("alcCreateContext", <<_device>>, ret, IF rv # NULL THEN ctx ELSE NULL,
                 IO_END_ALC(create_body(Start, _device, ctx, rv), _device))

StaticStrings == <<AL_VERSION, AL_RENDERER, AL_VENDOR, AL_EXTENSIONS>>

\* the four queries made without looking at checked_static_state
check_context_static_state_always(m, ctx) ==
    IF ctx # NULL
    THEN [m EXCEPT !.ctxs[ctx].checked_static_state = TRUE,
                   !.events = @ \o [i \in 1..4 |->
                                    <<"CONTEXT_STATE_CHANGED_STRING", ctx, StaticStrings[i]>>]]
    ELSE m

check_context_static_state(m, ctx) ==
    IF ctx # NULL /\ ~m.ctxs[ctx].checked_static_state
    THEN [m EXCEPT !.ctxs[ctx].checked_static_state = TRUE,
                   !.events = @ \o [i \in 1..4 |->
                                    <<"CONTEXT_STATE_CHANGED_STRING", ctx, StaticStrings[i]>>]]
    ELSE m

\* the real call succeeds on NULL and on every live context; the context
\* and listener state the real library reports is the state the wrapper
\* starts from, so check_context_state finds no change
make_current_body(m, ctx) ==
    check_context_static_state(
        [m EXCEPT !.real = REAL_alcMakeContextCurrent(@, IF ctx = NULL THEN NULL
                                                         ELSE m.ctxs[ctx].ctx),
                  !.current_context = ctx],
        ctx)

make_current_end(m) ==
    IO_END_ALC(m, IF m.current_context # NULL THEN m.ctxs[m.current_context].device ELSE NULL)

\* the real call fails on a context: retval is ALC_FALSE, the real library
\* raises ALC_INVALID_CONTEXT on its device, and the wrapper changes nothing
\* a wrapper that assigns current_context whatever the real call returned
make_current_failed_switched(m, ctx) ==
    [m EXCEPT !.real = SetALCError(@, m.devs[m.ctxs[ctx].device].device,
                                   ALC_INVALID_CONTEXT),
              !.current_context = ctx]

make_current_failed(m, ctx) ==
    [m EXCEPT !.real = SetALCError(@, m.devs[m.ctxs[ctx].device].device,
                                   ALC_INVALID_CONTEXT)]

alcMakeContextCurrent ==
    /\ ALCReady
    /\ \E ctx \in DOMAIN ctxs \cup {NULL} :
          \/ Return("alcMakeContextCurrent", <<ctx>>, TRUE, TRUE,
                    make_current_end(make_current_body(Start, ctx)))
          \/ /\ ctx # NULL
             /\ Return("alcMakeContextCurrent", <<ctx>>, FALSE, FALSE,
                       make_current_end(make_current_failed(Start, ctx)))

unlink_context_next(m, ctx) ==
    IF m.ctxs[ctx].next # NULL
    THEN [m EXCEPT !.ctxs[m.ctxs[ctx].next].prev = m.ctxs[ctx].prev]
    ELSE m

unlink_context_prev(m, ctx) ==
    IF m.ctxs[ctx].prev # NULL
    THEN [m EXCEPT !.ctxs[m.ctxs[ctx].prev].next = m.ctxs[ctx].next]
    ELSE [m EXCEPT !.devs[m.ctxs[ctx].device].contexts = m.ctxs[ctx].next]

\* free(ctx): the source wrappers of its hash table are not freed and are
\* never reachable again
free_context(m, ctx) ==
    [m EXCEPT !.ctxs = Drop(@, ctx),
              !.srcs = [s \in {x \in DOMAIN @ : x[1] # ctx} |-> @[s]]]

\* the wrapper is unlinked and freed whatever the real call did
destroy_body(m, ctx, ok) ==
    IF ctx = NULL THEN [m EXCEPT !.real = REAL_alcDestroyContext(@, NULL, ok)]
    ELSE free_context(
             unlink_context_prev(
                 unlink_context_next(
                     [m EXCEPT !.real = REAL_alcDestroyContext(@, m.ctxs[ctx].ctx, ok)], ctx),
                 ctx),
             ctx)

alcDestroyContext ==
    /\ ALCReady
    /\ \E ctx \in DOMAIN ctxs \cup {NULL} :
       \E ok \in (IF ctx # NULL /\ ctxs[ctx].ctx = real.current THEN BOOLEAN
                  ELSE {ctx # NULL}) :
          Return("alcDestroyContext", <<ctx>>, "void", "void",
                 IO_END_ALC(destroy_body(Start, ctx, ok),
                            IF ctx # NULL THEN ctxs[ctx].device ELSE NULL))

alcGetError_body(m, device) == [m EXCEPT !.devs[device].errorlatch = ALC_NO_ERROR]

alcGetError_returning(_device, device, rv) ==
    Return("alcGetError", <<_device>>, rv, rv,
           IO_END_ALC(alcGetError_body(Start, device), device))

alcGetError ==
    /\ ALCReady
    /\ \E _device \in (DOMAIN devs \ {NullDevice}) \cup {NULL} :
          alcGetError_returning(_device, IF _device # NULL THEN _device ELSE NullDevice,
                                devs[IF _device # NULL THEN _device ELSE NullDevice].errorlatch)

alGetError_retval(m) ==
    IF m.current_context = NULL THEN m.null_context_errorlatch
    ELSE m.ctxs[m.current_context].errorlatch

alGetError_body(m) ==
    IF m.current_context = NULL THEN [m EXCEPT !.null_context_errorlatch = AL_NO_ERROR]
    ELSE [m EXCEPT !.ctxs[m.current_context].errorlatch = AL_NO_ERROR]

alGetError_returning(rv) ==
    Return("alGetError", <<>>, rv, rv, IO_END_AL(alGetError_body(Start)))

alGetError ==
    /\ ALReady
    /\ alGetError_returning(alGetError_retval(Start))

alEnable ==
    /\ ALReady
    /\ \E capability \in Capabilities :
          Return("alEnable", <<capability>>, "void", "void",
                 IO_END_AL([Start EXCEPT !.real = REAL_alEnable(@, capability)]))

link_playlist_next(m, src) ==
    IF m.srcs[src].playlist_next # NULLSRC
    THEN [m EXCEPT !.srcs[m.srcs[src].playlist_next].playlist_prev = src]
    ELSE m

add_source(m, src, ctx) ==
    IF src # NULLSRC /\ ctx # NULL
       /\ m.srcs[src].playlist_next = NULLSRC /\ m.srcs[src].playlist_prev = NULLSRC
    THEN link_playlist_next([m EXCEPT !.srcs[src].playlist_prev = NULLSRC,
                                      !.srcs[src].playlist_next = m.ctxs[ctx].playlist,
                                      !.ctxs[ctx].playlist = src],
                            src)
    ELSE m

add_source_to_playlist(m, name) ==
    add_source(m, source_wrapped_lookup(m, name), m.current_context)

alSourcePlay ==
    /\ ALReady
    /\ \E name \in SourceNames :
          Return("alSourcePlay", <<name>>, "void", "void",
                 IO_END_AL(add_source_to_playlist(
                            [Start EXCEPT !.real = REAL_alSourcePlay(@, name)], name)))

alSourcePause ==
    /\ ALReady
    /\ \E name \in SourceNames :
          Return("alSourcePause", <<name>>, "void", "void",
                 IO_END_AL(check_source_state_from_name(
                            [Start EXCEPT !.real = REAL_alSourcePause(@, name)], name)))

alSourceStop ==
    /\ ALReady
    /\ \E name \in SourceNames :
          Return("alSourceStop", <<name>>, "void", "void",
                 IO_END_AL(check_source_state_from_name(
                            [Start EXCEPT !.real = REAL_alSourceStop(@, name)], name)))

alSourceRewind ==
    /\ ALReady
    /\ \E name \in SourceNames :
          Return("alSourceRewind", <<name>>, "void", "void",
                 IO_END_AL(check_source_state_from_name(
                            [Start EXCEPT !.real = REAL_alSourceRewind(@, name)], name)))

FreshSource(name) ==
    [name |-> name, state |-> AL_INITIAL, playlist_next |-> NULLSRC, playlist_prev |-> NULLSRC]

\* init_source_state and the insertion into the hash table
gen_wrapped(m, ctx, name) ==
    IF ctx # NULL /\ name # 0
    THEN check_source_state([m EXCEPT !.srcs = Put(@, <<ctx, name>>, FreshSource(name))],
                            <<ctx, name>>)
    ELSE m

\* alGenSources(1, names): name is what the real call left in names[0], 0
\* when it generated nothing
alGenSources ==
    /\ ALReady
    /\ \E name \in (IF real.current = NULL \/ RealFreeNames(real) = {} THEN {0}
                    ELSE RealFreeNames(real)) :
          Return("alGenSources", <<1, name>>, "void", "void",
                 IO_END_AL(gen_wrapped([Start EXCEPT !.real = REAL_alGenSources(@, name)],
                                    current_context, name)))

delete_unlink_next(m, src) ==
    IF m.srcs[src].playlist_next # NULLSRC
    THEN [m EXCEPT !.srcs[m.srcs[src].playlist_next].playlist_prev = m.srcs[src].playlist_prev]
    ELSE m

delete_unlink_prev(m, ctx, src) ==
    IF m.srcs[src].playlist_prev # NULLSRC
    THEN [m EXCEPT !.srcs[m.srcs[src].playlist_prev].playlist_next = m.srcs[src].playlist_next]
    ELSE [m EXCEPT !.ctxs[ctx].playlist = m.srcs[src].playlist_next]

delete_wrapped(m, ctx, src) ==
    IF src # NULLSRC
    THEN [delete_unlink_prev(delete_unlink_next(m, src), ctx, src) EXCEPT !.srcs = Drop(@, src)]
    ELSE m

\* the wrapper goes only when the check after the real call saw no error
delete_checked(m, ctx, name, alerr) ==
    IF alerr = AL_NO_ERROR /\ ctx # NULL
    THEN delete_wrapped(check_al_error_events(m), ctx, source_wrapped_lookup(m, name))
    ELSE check_al_error_events(m)

delete_body(m, ctx, name) == delete_checked(m, ctx, name, al_error_checked(m))

\* alDeleteSources(1, names) with names[0] = name
alDeleteSources ==
    /\ ALReady
    /\ \E name \in SourceNames :
          Return("alDeleteSources", <<1, name>>, "void", "void",
                 IO_END_AL(delete_body([Start EXCEPT !.real = REAL_alDeleteSources(@, name)],
                                    current_context, name)))

NextReg ==
    \/ alcOpenDevice
    \/ alcCloseDevice
    \/ alcCreateContext
    \/ alcMakeContextCurrent
    \/ alcDestroyContext
    \/ alcGetError
    \/ alGetError
    \/ alEnable
    \/ alSourcePlay
    \/ Disconnect

NextSrc ==
    \/ alGenSources
    \/ alDeleteSources
    \/ alSourcePlay
    \/ alSourcePause
    \/ alSourceStop
    \/ alSourceRewind
    \/ alGetError
    \/ PollSource
    \/ Mixer

\* SpecTwo: the calls of SpecSrc made by an application that has two
\* contexts on its device and switches between them
NextTwo ==
    \/ alGenSources
    \/ alDeleteSources
    \/ alSourcePlay
    \/ alSourceStop
    \/ alGetError
    \/ alcMakeContextCurrent
    \/ PollSource
    \/ Mixer

(***************************************************************************)
(* SpecBucket.  wrapped_buffer_hash of the device of the current context,  *)
(* at the level of its pointers: a wrapper is a record at an address that  *)
(* malloc handed out, with hash_prev and hash_next.  alGenSources and      *)
(* alDeleteSources keep wrapped_source_hash of the context with the same   *)
(* statements.  A context is current throughout; the calls are made by one *)
(* thread.                                                                 *)
(***************************************************************************)
notBucket == <<lockVars, codecVars, regVars, quitVars, raceVars, clockVars, strVars,
               nameVars, detVars, scopeVars, againVars>>

NULLBUF == "NULL"

BufferPool == {"buf1", "buf2", "buf3"}

\* 1, 257 and 513 share a bucket
BufferNames == {1, 2, 257, 513}

hash_alname(name) == name % 256

Buckets == {hash_alname(n) : n \in BufferNames}

\* the sequences of 1..n different elements of S
DistinctSeqs(S, n) ==
    {q \in UNION {[1..k -> S] : k \in 1..n} : \A i, j \in DOMAIN q : q[i] = q[j] => i = j}

\* the table as one value: the records and the bucket heads
B == [bufs |-> bufs, heads |-> wrapped_buffer_hash]

RECURSIVE hash_walk(_, _, _, _)
\* the for loop of the lookup from buf on, n records at most
hash_walk(b, buf, name, n) ==
    IF buf = NULLBUF \/ n = 0 THEN NULLBUF
    ELSE IF b.bufs[buf].name = name THEN buf
    ELSE hash_walk(b, b.bufs[buf].hash_next, name, n - 1)

buffer_wrapped_lookup(b, name) ==
    IF name # 0
    THEN hash_walk(b, b.heads[hash_alname(name)], name, Cardinality(BufferPool))
    ELSE NULLBUF

\* memset and buf->name = name
init_buffer_state(name) == [name |-> name, hash_prev |-> NULLBUF, hash_next |-> NULLBUF]

\* the body of the loop of alGenBuffers for names[i] = name, buf what
\* malloc returned
gen_buffer(b, buf, name) ==
    LET hash == hash_alname(name)
        head == b.heads[hash]
        made == [b EXCEPT !.bufs = Put(@, buf, [init_buffer_state(name)
                                                   EXCEPT !.hash_next = head])]
        linked == IF head # NULLBUF THEN [made EXCEPT !.bufs[head].hash_prev = buf] ELSE made
    IN  IF name # 0 THEN [linked EXCEPT !.heads[hash] = buf] ELSE b

RECURSIVE gen_buffers(_, _, _, _)
gen_buffers(b, addrs, names, i) ==
    IF i > Len(names) THEN b
    ELSE gen_buffers(gen_buffer(b, addrs[i], names[i]), addrs, names, i + 1)

\* the unlinking that forgets to turn the successor's hash_prev
delete_buffer_half(b, name) ==
    LET buf == buffer_wrapped_lookup(b, name)
        rec == b.bufs[buf]
        before == IF rec.hash_prev # NULLBUF
                  THEN [b EXCEPT !.bufs[rec.hash_prev].hash_next = rec.hash_next]
                  ELSE [b EXCEPT !.heads[hash_alname(name)] = rec.hash_next]
    IN  IF buf # NULLBUF THEN [before EXCEPT !.bufs = Drop(@, buf)] ELSE b

\* the body of the loop of alDeleteBuffers for names[i] = name
delete_buffer(b, name) ==
    LET buf == buffer_wrapped_lookup(b, name)
        rec == b.bufs[buf]
        before == IF rec.hash_prev # NULLBUF
                  THEN [b EXCEPT !.bufs[rec.hash_prev].hash_next = rec.hash_next]
                  ELSE [b EXCEPT !.heads[hash_alname(name)] = rec.hash_next]
        after == IF rec.hash_next # NULLBUF
                 THEN [before EXCEPT !.bufs[rec.hash_next].hash_prev = rec.hash_prev]
                 ELSE before
    IN  IF buf # NULLBUF THEN [after EXCEPT !.bufs = Drop(@, buf)] ELSE b

RECURSIVE delete_buffers(_, _, _)
delete_buffers(b, names, i) ==
    IF i > Len(names) THEN b
    ELSE delete_buffers(delete_buffer(b, names[i]), names, i + 1)

BucketCommit(b, name, names, ok) ==
    /\ bufs' = b.bufs
    /\ wrapped_buffer_hash' = b.heads
    /\ blast' = [name |-> name, names |-> names, ok |-> ok]
    /\ bops' = bops + 1
    /\ UNCHANGED notBucket

\* the real call names n new buffers, or fails and leaves the zeroes of
\* the memset in names
alGenBuffers ==
    /\ bops < MaxBufferOps
    /\ \/ \E names \in DistinctSeqs(BufferNames \ realbufs, 2) :
          \E addrs \in DistinctSeqs(BufferPool \ DOMAIN bufs, 2) :
             /\ Len(addrs) = Len(names)
             /\ realbufs' = realbufs \cup {names[i] : i \in DOMAIN names}
             /\ BucketCommit(gen_buffers(B, addrs, names, 1), "alGenBuffers", names, TRUE)
       \/ \E n \in 1..2 :
             /\ realbufs' = realbufs
             /\ BucketCommit(gen_buffers(B, <<>>, [i \in 1..n |-> 0], 1),
                             "alGenBuffers", [i \in 1..n |-> 0], FALSE)

\* the real call deletes all the names or, when one of them is no buffer,
\* none and raises AL_INVALID_NAME, which check_al_error_events returns
alDeleteBuffers ==
    /\ bops < MaxBufferOps
    /\ \E names \in UNION {[1..k -> BufferNames \cup {0}] : k \in 1..2} :
          LET ok == \A i \in DOMAIN names : names[i] \in realbufs \cup {0}
          IN  /\ realbufs' = IF ok THEN realbufs \ {names[i] : i \in DOMAIN names}
                              ELSE realbufs
              /\ BucketCommit(IF ok THEN delete_buffers(B, names, 1) ELSE B,
                              "alDeleteBuffers", names, ok)

NextBucket == alGenBuffers \/ alDeleteBuffers

(***************************************************************************)
(* SpecScope.  trace_scope of altrace_playback.c.  A step decodes one      *)
(* complete call event: IO_ENTRYINFO copies trace_scope into the           *)
(* callerinfo, and the decoders of alTracePushScope and alTracePopScope    *)
(* change it.  The counter is a uint32: x + 1 and x - 1 on the int32 of    *)
(* the same bits are the unsigned operations as long as fewer than 2^31    *)
(* events are decoded, and a negative int32 is a value of 2^31 or more.    *)
(***************************************************************************)
notScope == <<lockVars, codecVars, regVars, quitVars, raceVars, clockVars, strVars,
              nameVars, detVars, bucketVars, againVars>>

\* callerinfo->trace_scope = trace_scope
IO_ENTRYINFO_scope == trace_scope

ScopeVisit(name, scope) ==
    /\ Len(scope_visits) < MaxScopeEvents
    /\ scope_visits' = Append(scope_visits, <<name, scope>>)

\* the visitor is called, then trace_scope++
decode_alTracePushScope ==
    /\ ScopeVisit("alTracePushScope", IO_ENTRYINFO_scope)
    /\ trace_scope' = trace_scope + 1
    /\ UNCHANGED notScope

\* callerinfo.trace_scope-- and trace_scope--, then the visitor is called
decode_alTracePopScope ==
    /\ ScopeVisit("alTracePopScope", IO_ENTRYINFO_scope - 1)
    /\ trace_scope' = trace_scope - 1
    /\ UNCHANGED notScope

\* the decoder of any other call
decode_alTraceMessage ==
    /\ ScopeVisit("alTraceMessage", IO_ENTRYINFO_scope)
    /\ UNCHANGED <<trace_scope, notScope>>

NextScope == decode_alTracePushScope \/ decode_alTracePopScope \/ decode_alTraceMessage

(***************************************************************************)
(* SpecAgain.  The program calls process_tracelog on the same file a       *)
(* second time.  The statics of altrace_playback.c keep the values the     *)
(* first call left: quit_altrace_playback has emptied the maps, nothing    *)
(* assigns next_mapped_threadid.  visited, eos_calls and progress are what *)
(* the visitors of one call have seen, so the second call starts with      *)
(* them empty.                                                             *)
(***************************************************************************)
notAgain == <<lockVars, regVars, quitVars, raceVars, clockVars, strVars,
              nameVars, detVars, bucketVars, scopeVars>>

MaxRuns == 2

\* what the visitors of the call that has returned were given
ThisRun == [visited |-> visited, eos_calls |-> eos_calls, retval |-> retval]

\* process_tracelog has returned and the program calls it again
process_tracelog_again ==
    /\ pstate = "done"
    /\ Len(earlier_runs) + 1 < MaxRuns
    /\ earlier_runs' = Append(earlier_runs, ThisRun)
    /\ pstate' = "off"
    /\ visited' = <<>>
    /\ eos_calls' = <<>>
    /\ progress' = <<>>
    /\ UNCHANGED <<rpos, io_failure, retval, threadids, next_mapped_threadid, symframes,
                   labelmaps, label_visits, recVars, notAgain>>

NextAgain ==
    \/ Rec_alcOpenDevice
    \/ Rec_alGetError
    \/ quit_altrace_record
    \/ init_altrace_playback
    \/ process_tracelog
    \/ process_tracelog_again

(***************************************************************************)
(* The specifications.                                                     *)
(***************************************************************************)
NoDevice ==
    [device |-> NULL, errorlatch |-> ALC_NO_ERROR, iscapture |-> FALSE, connected |-> FALSE,
     supports_disconnect_ext |-> FALSE, capture_samples |-> 0, contexts |-> NULL,
     prev |-> NULL, next |-> NULL]

NoReal ==
    [open |-> {}, capture |-> {}, connected |-> {}, samples |-> {},
     ctxdev |-> [c \in {} |-> NULL], current |-> NULL,
     alcerr |-> [rdev \in RealDevices \cup {NULL} |-> ALC_NO_ERROR],
     alerr |-> [rctx \in RealContexts |-> AL_NO_ERROR],
     src |-> [s \in {} |-> AL_INITIAL]]

\* the state once the recorder's constructor has run: no thread is inside
\* a wrapper, the log holds the magic and the format version, the registry
\* holds null_device alone
Init ==
    /\ apilock = 0
    /\ tpc = [t \in Threads |-> "idle"]
    /\ tep = [t \in Threads |-> "none"]
    /\ tseq = [t \in Threads |-> 0]
    /\ ncalls = 0
    /\ wlog = <<>>
    /\ trace = wr_IO_UINT32(ALTRACE_LOG_FILE_MAGIC) \o wr_IO_UINT32(ALTRACE_LOG_FILE_FORMAT)
    /\ rec_open = TRUE
    /\ nevents = 0
    /\ recorded = <<>>
    /\ rec_frames = {}
    /\ pstate = "off"
    /\ rpos = 0
    /\ io_failure = FALSE
    /\ visited = <<>>
    /\ eos_calls = <<>>
    /\ progress = <<>>
    /\ labelmaps = [kind \in {"device", "context", "source", "buffer"} |-> <<>>]
    /\ label_visits = <<>>
    /\ thr = [t \in 1..NThreads |->
                 [pc |-> "app", ep |-> "none", seq |-> 0, field |-> 0, io |-> -1,
                  why |-> "none", status |-> 0, cont |-> "none", oom |-> FALSE]]
    /\ logfd = 3
    /\ fd_open = TRUE
    /\ qapilock = TRUE
    /\ qowner = 0
    /\ qlog = <<>>
    /\ qcalls = 0
    /\ exitcode = [by |-> 0, status |-> 0]
    /\ rthr = [t \in 1..NThreads |-> [pc |-> "app", ep |-> "none", ctx |-> 0, arg |-> 0]]
    /\ rowner = 0
    /\ rcurrent = 1
    /\ buckets = [c \in {1, 2} |-> <<>>]
    /\ touched = [ep |-> "none", ctx |-> 0, current |-> 0]
    /\ rcalls = 0
    /\ rnames = 0
    /\ clock = 0
    /\ tms = [t \in 1..NThreads |-> 0]
    /\ stamps = <<>>
    /\ str_written = <<>>
    /\ str_read = <<>>
    /\ sread = [pos |-> 8, fail |-> FALSE]
    /\ files = [n \in 0..MaxFiles |-> "absent"]
    /\ chosen = -1
    /\ det = [shadow |-> init_source_state, queried |-> [p \in SourceProps |-> <<>>],
              emitted |-> <<>>, checks |-> 0]
    /\ bufs = <<>>
    /\ wrapped_buffer_hash = [h \in Buckets |-> NULLBUF]
    /\ realbufs = {}
    /\ blast = [name |-> "none", names |-> <<>>, ok |-> FALSE]
    /\ bops = 0
    /\ trace_scope = 0
    /\ scope_visits = <<>>
    /\ earlier_runs = <<>>
    /\ retval = 1
    /\ threadids = {}
    /\ next_mapped_threadid = 0
    /\ symframes = {}
    /\ devs = [d \in {NullDevice} |-> NoDevice]
    /\ ctxs = [c \in {} |-> NULL]
    /\ srcs = [s \in {} |-> NULL]
    /\ current_context = NULL
    /\ null_context_errorlatch = AL_NO_ERROR
    /\ real = NoReal
    /\ events = <<>>
    /\ polled = <<>>
    /\ pass = Idle
    /\ last = [name |-> "none", args |-> <<>>, ret |-> "void", rec |-> "void"]
    /\ nops = 0

\* the state after alcOpenDevice, alcCreateContext and alcMakeContextCurrent
\* have succeeded once each: one playback device, its one context current
InitSrc ==
    /\ apilock = 0
    /\ tpc = [t \in Threads |-> "idle"]
    /\ tep = [t \in Threads |-> "none"]
    /\ tseq = [t \in Threads |-> 0]
    /\ ncalls = 0
    /\ wlog = <<>>
    /\ trace = wr_IO_UINT32(ALTRACE_LOG_FILE_MAGIC) \o wr_IO_UINT32(ALTRACE_LOG_FILE_FORMAT)
    /\ rec_open = TRUE
    /\ nevents = 0
    /\ recorded = <<>>
    /\ rec_frames = {}
    /\ pstate = "off"
    /\ rpos = 0
    /\ io_failure = FALSE
    /\ visited = <<>>
    /\ eos_calls = <<>>
    /\ progress = <<>>
    /\ labelmaps = [kind \in {"device", "context", "source", "buffer"} |-> <<>>]
    /\ label_visits = <<>>
    /\ thr = [t \in 1..NThreads |->
                 [pc |-> "app", ep |-> "none", seq |-> 0, field |-> 0, io |-> -1,
                  why |-> "none", status |-> 0, cont |-> "none", oom |-> FALSE]]
    /\ logfd = 3
    /\ fd_open = TRUE
    /\ qapilock = TRUE
    /\ qowner = 0
    /\ qlog = <<>>
    /\ qcalls = 0
    /\ exitcode = [by |-> 0, status |-> 0]
    /\ rthr = [t \in 1..NThreads |-> [pc |-> "app", ep |-> "none", ctx |-> 0, arg |-> 0]]
    /\ rowner = 0
    /\ rcurrent = 1
    /\ buckets = [c \in {1, 2} |-> <<>>]
    /\ touched = [ep |-> "none", ctx |-> 0, current |-> 0]
    /\ rcalls = 0
    /\ rnames = 0
    /\ clock = 0
    /\ tms = [t \in 1..NThreads |-> 0]
    /\ stamps = <<>>
    /\ str_written = <<>>
    /\ str_read = <<>>
    /\ sread = [pos |-> 8, fail |-> FALSE]
    /\ files = [n \in 0..MaxFiles |-> "absent"]
    /\ chosen = -1
    /\ det = [shadow |-> init_source_state, queried |-> [p \in SourceProps |-> <<>>],
              emitted |-> <<>>, checks |-> 0]
    /\ bufs = <<>>
    /\ wrapped_buffer_hash = [h \in Buckets |-> NULLBUF]
    /\ realbufs = {}
    /\ blast = [name |-> "none", names |-> <<>>, ok |-> FALSE]
    /\ bops = 0
    /\ trace_scope = 0
    /\ scope_visits = <<>>
    /\ earlier_runs = <<>>
    /\ retval = 1
    /\ threadids = {}
    /\ next_mapped_threadid = 0
    /\ symframes = {}
    /\ devs = [d \in {NullDevice, "dev1"} |->
                 IF d = NullDevice THEN [NoDevice EXCEPT !.next = "dev1"]
                 ELSE [NoDevice EXCEPT !.device = "rdev1", !.connected = TRUE,
                                       !.contexts = "ctx1", !.prev = NullDevice]]
    /\ ctxs = [c \in {"ctx1"} |->
                 [ctx |-> "rctx1", device |-> "dev1", errorlatch |-> AL_NO_ERROR,
                  checked_static_state |-> TRUE, playlist |-> NULLSRC,
                  prev |-> NULL, next |-> NULL]]
    /\ srcs = [s \in {} |-> NULL]
    /\ current_context = "ctx1"
    /\ null_context_errorlatch = AL_NO_ERROR
    /\ real = [NoReal EXCEPT !.open = {"rdev1"}, !.connected = {"rdev1"},
                             !.ctxdev = [c \in {"rctx1"} |-> "rdev1"],
                             !.current = "rctx1"]
    /\ events = <<>>
    /\ polled = <<>>
    /\ pass = Idle
    /\ last = [name |-> "none", args |-> <<>>, ret |-> "void", rec |-> "void"]
    /\ nops = 0


\* the state after alcOpenDevice, alcCreateContext twice,
\* alcMakeContextCurrent(ctx2), alGenSources, which named source 1, and
\* alcMakeContextCurrent(ctx1)
InitTwo ==
    /\ apilock = 0
    /\ tpc = [t \in Threads |-> "idle"]
    /\ tep = [t \in Threads |-> "none"]
    /\ tseq = [t \in Threads |-> 0]
    /\ ncalls = 0
    /\ wlog = <<>>
    /\ trace = wr_IO_UINT32(ALTRACE_LOG_FILE_MAGIC) \o wr_IO_UINT32(ALTRACE_LOG_FILE_FORMAT)
    /\ rec_open = TRUE
    /\ nevents = 0
    /\ recorded = <<>>
    /\ rec_frames = {}
    /\ pstate = "off"
    /\ rpos = 0
    /\ io_failure = FALSE
    /\ visited = <<>>
    /\ eos_calls = <<>>
    /\ progress = <<>>
    /\ labelmaps = [kind \in {"device", "context", "source", "buffer"} |-> <<>>]
    /\ label_visits = <<>>
    /\ thr = [t \in 1..NThreads |->
                 [pc |-> "app", ep |-> "none", seq |-> 0, field |-> 0, io |-> -1,
                  why |-> "none", status |-> 0, cont |-> "none", oom |-> FALSE]]
    /\ logfd = 3
    /\ fd_open = TRUE
    /\ qapilock = TRUE
    /\ qowner = 0
    /\ qlog = <<>>
    /\ qcalls = 0
    /\ exitcode = [by |-> 0, status |-> 0]
    /\ rthr = [t \in 1..NThreads |-> [pc |-> "app", ep |-> "none", ctx |-> 0, arg |-> 0]]
    /\ rowner = 0
    /\ rcurrent = 1
    /\ buckets = [c \in {1, 2} |-> <<>>]
    /\ touched = [ep |-> "none", ctx |-> 0, current |-> 0]
    /\ rcalls = 0
    /\ rnames = 0
    /\ clock = 0
    /\ tms = [t \in 1..NThreads |-> 0]
    /\ stamps = <<>>
    /\ str_written = <<>>
    /\ str_read = <<>>
    /\ sread = [pos |-> 8, fail |-> FALSE]
    /\ files = [n \in 0..MaxFiles |-> "absent"]
    /\ chosen = -1
    /\ det = [shadow |-> init_source_state, queried |-> [p \in SourceProps |-> <<>>],
              emitted |-> <<>>, checks |-> 0]
    /\ bufs = <<>>
    /\ wrapped_buffer_hash = [h \in Buckets |-> NULLBUF]
    /\ realbufs = {}
    /\ blast = [name |-> "none", names |-> <<>>, ok |-> FALSE]
    /\ bops = 0
    /\ trace_scope = 0
    /\ scope_visits = <<>>
    /\ earlier_runs = <<>>
    /\ retval = 1
    /\ threadids = {}
    /\ next_mapped_threadid = 0
    /\ symframes = {}
    /\ devs = [d \in {NullDevice, "dev1"} |->
                 IF d = NullDevice THEN [NoDevice EXCEPT !.next = "dev1"]
                 ELSE [NoDevice EXCEPT !.device = "rdev1", !.connected = TRUE,
                                       !.contexts = "ctx2", !.prev = NullDevice]]
    /\ ctxs = [c \in {"ctx1", "ctx2"} |->
                 [ctx |-> IF c = "ctx1" THEN "rctx1" ELSE "rctx2", device |-> "dev1",
                  errorlatch |-> AL_NO_ERROR, checked_static_state |-> TRUE,
                  playlist |-> NULLSRC,
                  prev |-> IF c = "ctx1" THEN "ctx2" ELSE NULL,
                  next |-> IF c = "ctx1" THEN NULL ELSE "ctx1"]]
    /\ srcs = [s \in {<<"ctx2", 1>>} |->
                 [name |-> 1, state |-> AL_INITIAL, playlist_next |-> NULLSRC,
                  playlist_prev |-> NULLSRC]]
    /\ current_context = "ctx1"
    /\ null_context_errorlatch = AL_NO_ERROR
    /\ real = [NoReal EXCEPT !.open = {"rdev1"}, !.connected = {"rdev1"},
                             !.ctxdev = [c \in {"rctx1", "rctx2"} |-> "rdev1"],
                             !.current = "rctx1",
                             !.src = [x \in {<<"rctx2", 1>>} |-> AL_INITIAL]]
    /\ events = <<>>
    /\ polled = <<>>
    /\ pass = Idle
    /\ last = [name |-> "none", args |-> <<>>, ret |-> "void", rec |-> "void"]
    /\ nops = 0

SpecLock == Init /\ [][NextLock]_vars

SpecCodec == Init /\ [][NextCodec]_vars

SpecPlay == Init /\ [][NextPlay]_vars

SpecSyms == Init /\ [][NextSyms]_vars

SpecLabel == Init /\ [][NextLabel]_vars

SpecQuit == Init /\ [][NextQuit]_vars

SpecRace == Init /\ [][NextRace]_vars

SpecClock == Init /\ [][NextClock]_vars

SpecString == Init /\ [][NextString]_vars

SpecName == Init /\ [][NextName]_vars

SpecDetect == Init /\ [][NextDetect]_vars

SpecBucket == Init /\ [][NextBucket]_vars

SpecScope == Init /\ [][NextScope]_vars

SpecAgain == Init /\ [][NextAgain]_vars

Spec == Init /\ [][NextReg]_vars

SpecSrc == InitSrc /\ [][NextSrc]_vars

SpecTwo == InitTwo /\ [][NextTwo]_vars

(***************************************************************************)
(* Claims settled under SpecLock.                                          *)
(***************************************************************************)
CallOf(i) == <<wlog[i][1], wlog[i][2]>>

\* C1: all writes of one wrapped call (symbols event, header, arguments,
\* return values, tail events) are contiguous in the trace: no write of
\* another call lies between two writes of the same call.
C1_CallWritesContiguous ==
    \A i \in 1..Len(wlog) : \A k \in i..Len(wlog) :
        CallOf(i) = CallOf(k) => \A j \in i..k : CallOf(j) = CallOf(i)

\* a thread waits for the mutex while another thread is in the middle of
\* writing its call, and the trace already holds writes of both threads
C1_Witness ==
    \E t1 \in Threads, t2 \in Threads :
        /\ t1 # t2
        /\ tpc[t1] = "APILOCK"
        /\ apilock = t2
        /\ tpc[t2] \in {"args", "REAL", "rets", "IO_END"}
        /\ \E i \in 1..Len(wlog) : wlog[i][1] = t1
        /\ \E i \in 1..Len(wlog) : wlog[i][1] = t2 /\ wlog[i][2] = tseq[t2]

\* C2: a thread that is inside the real function of its wrapped call, or
\* between its call header and its post-call checks, holds the API mutex.
C2_RealCallUnderMutex ==
    \A t \in Threads :
        tpc[t] \in {"IO_ENTRYINFO", "args", "REAL", "rets", "IO_END", "APIUNLOCK"}
            => apilock = t

(***************************************************************************)
(* Claims settled under SpecCodec.                                         *)
(***************************************************************************)
\* C3: a complete trace of the recorder, whatever events it holds, is played
\* to eos(clean = true): process_tracelog returns 1 after exactly one eos
\* callback, a clean one, and never takes the unrecognized-tag path.
C3_CompleteTracePlaysClean ==
    pstate = "done" => /\ retval = 1
                       /\ Len(eos_calls) = 1
                       /\ eos_calls[1][1] = TRUE

\* a trace with a device-state-changed-bool event in it has been played
C3_Witness ==
    /\ pstate = "done"
    /\ \E i \in 1..Len(recorded) : recorded[i].name = "DEVICE_STATE_CHANGED_BOOL"

\* C4: record-then-play is a round trip on values: the j-th event handed to
\* the visitor is the j-th event the recorder serialized, and each value
\* the recorder serialized for it reaches the visitor unchanged, in order.
C4_RoundTrip ==
    \A j \in 1..Len(visited) :
        /\ j <= Len(recorded)
        /\ visited[j].name = recorded[j].name
        /\ Len(visited[j].args) >= Len(recorded[j].args)
        /\ \A k \in 1..Len(recorded[j].args) : visited[j].args[k] = recorded[j].args[k]

\* an alGetListeneriv or alBufferfv call with a non-zero value was played
C4_Witness ==
    \E j \in 1..Len(visited) :
        \/ visited[j].name = "alGetListeneriv" /\ recorded[j].args[4] = <<1, 0, -1>>
        \/ visited[j].name = "alBufferfv" /\ recorded[j].args[5] = <<FLOAT_ONE>>

\* the call events among those handed to the visitor so far
VisitedCalls ==
    {j \in 1..Len(visited) :
        \E i \in 1..Len(CodecEntryPoints) : CodecEntryPoints[i] = visited[j].name}

Calls ==
    {k \in 1..Len(recorded) :
        \E i \in 1..Len(CodecEntryPoints) : CodecEntryPoints[i] = recorded[k].name}

\* where address a is listed in new-callstack-symbols events: <<k, j>> for
\* pair j of the event written before call k
SymEventsOf(a) ==
    {e \in UNION {{<<k, j>> : j \in 1..Len(recorded[k].ci.news)} : k \in Calls} :
        recorded[e[1]].ci.news[e[2]][1] = a}

\* C15: every address in the caller-info of a call event is listed, with
\* its symbol, exactly once in the new-callstack-symbols events of the
\* trace, and no later than before the first call that carries it
C15_SymbolOnceBeforeFirstUse ==
    \A k \in Calls :
        \A i \in 1..Len(recorded[k].ci.stack) :
            /\ Cardinality(SymEventsOf(recorded[k].ci.stack[i])) = 1
            /\ \A e \in SymEventsOf(recorded[k].ci.stack[i]) :
                   /\ e[1] <= k
                   /\ recorded[e[1]].ci.news[e[2]][2] = Sym(recorded[k].ci.stack[i])

\* a call whose stack holds one address twice, and a later call with it
C15_Witness ==
    \E k \in Calls, l \in Calls :
        /\ k < l
        /\ Len(recorded[k].ci.stack) = 2
        /\ recorded[k].ci.stack[1] = recorded[k].ci.stack[2]
        /\ recorded[l].ci.stack # <<>>
        /\ recorded[l].ci.stack[1] = recorded[k].ci.stack[1]

\* C16: a frame whose address fails symbolication is still emitted: every
\* frame captured for a call is in the address list of its caller-info,
\* and one without a symbol is listed with the NULL string
C16_FailedFrameStillEmitted ==
    \A k \in Calls :
        /\ recorded[k].ci.stack = recorded[k].ci.captured
        /\ \A i \in 1..Len(recorded[k].ci.captured) :
               Sym(recorded[k].ci.captured[i]).null
                   => SymEventsOf(recorded[k].ci.captured[i]) # {}

(***************************************************************************)
(* Claims about the player on any file, checked under SpecPlay.            *)
(***************************************************************************)
\* the loop of process_tracelog was entered: the header passed validation
LoopEntered == progress # <<>>

\* C11: once a short read inside the loop has latched io_failure,
\* process_tracelog ends with the single callback eos(clean=false) and
\* returns the failure indicator 0
C11_ShortReadEndsUnclean ==
    (pstate = "done" /\ LoopEntered /\ io_failure)
        => (retval = 0 /\ eos_calls = <<<<FALSE, 0>>>>)

\* C12: for a trace that passed header validation, process_tracelog has
\* invoked eos exactly once when it returns, and a return value of success
\* comes with eos(clean=true)
C12_EosExactlyOnce ==
    (pstate = "done" /\ LoopEntered)
        => /\ Len(eos_calls) = 1
           /\ (retval = 1 => eos_calls[1][1])

\* C13: when the player ends on a fatal condition that is no read failure
\* (bad magic, unsupported format version, unrecognized tag), it has
\* invoked eos(clean=false) and returns the failure indicator
C13_FatalEndsWithUncleanEos ==
    (pstate = "done" /\ retval = 0 /\ ~io_failure) => eos_calls = <<<<FALSE, 0>>>>

\* the step made a call of the progress hook, which returned ok
HookReturned(ok) ==
    /\ Len(progress') = Len(progress) + 1
    /\ progress'[Len(progress')][2] = ok

\* C14: the progress hook is called, with the offset of the tag, in every
\* iteration that reads an event tag; the iteration in which it returns
\* false reads nothing, makes eos(clean=false) its only visitor callback and
\* ends process_tracelog with -1; -1 is returned in no other way
C14_CancelStopsPlayback ==
    [][/\ (pstate = "loop" /\ rpos' # rpos) => progress' = Append(progress, <<rpos, TRUE>>)
       /\ HookReturned(FALSE)
              => /\ rpos' = rpos
                 /\ visited' = visited
                 /\ eos_calls' = Append(eos_calls, <<FALSE, 0>>)
                 /\ pstate' = "done"
                 /\ retval' = -1
       /\ (retval' = -1) => (retval = -1 \/ HookReturned(FALSE))]_vars

\* the hook cancelled the playback after the visitor had seen an event
C14_Witness ==
    /\ pstate = "done"
    /\ retval = -1
    /\ visited # <<>>
    /\ Len(progress) >= 2
    /\ eos_calls = <<<<FALSE, 0>>>>

(***************************************************************************)
(* Claims about the label maps of the player, checked under SpecLabel.     *)
(***************************************************************************)
\* the label events and delete events among the first j events that name
\* identity x of kind kind
LabelChanges(j, kind, x) ==
    {i \in 1..j : /\ label_visits[i].kind = kind
                  /\ label_visits[i].ev # "other"
                  /\ \E p \in DOMAIN label_visits[i].ids : label_visits[i].ids[p] = x}

\* the label of x that the events decoded so far, the first j of them, leave
LabelAfter(j, kind, x) ==
    LET I == LabelChanges(j, kind, x)
    IN  IF x = 0 \/ I = {} THEN "NULL"
        ELSE LET i == CHOOSE m \in I : \A n \in I : n <= m
             IN  IF label_visits[i].ev = "label" THEN label_visits[i].str ELSE "NULL"

\* C20: after a delete, close or destroy event for a device, a context, a
\* source name or a buffer name is decoded the label map has no label for
\* that identity, and the visitor of every later event sees it unlabelled
\* until a label event for it is decoded; the visitor of the delete event
\* itself sees the label the identity had before the event, and the visitor
\* of a label event sees the label of that event.
C20_DeleteClearsLabel ==
    /\ \A kind \in LabelKinds, x \in Identities :
           labelString(labelmaps, kind, x) = LabelAfter(Len(label_visits), kind, x)
    /\ \A j \in DOMAIN label_visits :
           \A p \in DOMAIN label_visits[j].ids :
               label_visits[j].sees[p] =
                   LabelAfter(IF label_visits[j].ev = "label" THEN j ELSE j - 1,
                              label_visits[j].kind, label_visits[j].ids[p])

\* a source is labelled, deleted (the visitor sees the label) and named by
\* a later event (the visitor sees no label)
C20_Witness ==
    /\ Len(label_visits) = 3
    /\ label_visits[1] = [ev |-> "label", kind |-> "source", ids |-> <<1>>,
                          str |-> "front", sees |-> <<"front">>]
    /\ label_visits[2].ev = "alDeleteSources"
    /\ label_visits[2].ids = <<2, 1>>
    /\ label_visits[2].sees = <<"NULL", "front">>
    /\ label_visits[3] = [ev |-> "other", kind |-> "source", ids |-> <<1>>,
                          str |-> "NULL", sees |-> <<"NULL">>]
    /\ labelString(labelmaps, "source", 1) = "NULL"

(***************************************************************************)
(* Claims about the shutdown of the recorder, checked under SpecQuit.      *)
(***************************************************************************)
\* the fields of call seq of thread t among the first i writes of the log
FieldsBefore(i, t, seq) == Cardinality({j \in 1..(i - 1) : qlog[j] = <<t, seq>>})

EosAt == {i \in DOMAIN qlog : qlog[i][1] = 0}

\* C21: the EOS event that shutdown writes never lands inside an event:
\* when it is written, every event that another thread has begun is in the
\* log with both of its fields.  (It follows from the claim that only a
\* holder of the API mutex writes, closes and resets logfd.)
C21_EosNeverInsideEvent ==
    \A i \in EosAt : \A t \in 1..NThreads \ {qlog[i][2]}, seq \in 1..MaxCalls :
        FieldsBefore(i, t, seq) \in {0, 2}

\* C23: a log that was opened holds at most one EOS event, nothing is
\* written after it, and once the process has ended the log holds one.
C23_ExactlyOneEos ==
    /\ \A i \in EosAt : i = Len(qlog)
    /\ ~Running => EosAt # {}

QuitPcs == {"quit", "quit_reset", "quit_eos", "quit_close", "quit_done", "_Exit"}

\* C25: a thread in which an allocation of a wrapper has failed is on the
\* fatal path from then on (shutdown, then exit status 42); it never is back
\* in the application.
C25_OomIsFatal ==
    \A t \in 1..NThreads : thr[t].oom => (thr[t].pc \in QuitPcs /\ thr[t].status = 42)

C22_WritesCurrentContext == touched.ctx = touched.current

(***************************************************************************)
(* Claims about the timestamps of call events, checked under SpecClock.    *)
(***************************************************************************)
\* C24: with a clock that never goes back, the timestamps of the call
\* events are non-decreasing in log order, those of one thread and those
\* of all threads together.
C24_TimestampsNonDecreasing ==
    \A i, j \in DOMAIN stamps : i < j => stamps[i][2] <= stamps[j][2]

\* two threads have written call events at different times, one of them two
C24_Witness ==
    /\ Len(stamps) = 3
    /\ stamps[1][1] # stamps[2][1]
    /\ stamps[1][1] = stamps[3][1]
    /\ stamps[1][2] < stamps[2][2]
    /\ stamps[2][2] < stamps[3][2]

(***************************************************************************)
(* Claims about the encoding of strings, checked under SpecString.         *)
(***************************************************************************)
\* the bytes the format asks for: eight bytes 255 for the absent string,
\* else the length in eight bytes, least significant first, and the bytes
ExpectedBytes(str) ==
    IF str.null THEN <<255, 255, 255, 255, 255, 255, 255, 255>>
    ELSE <<Len(str.s), 0, 0, 0, 0, 0, 0, 0>> \o str.s

\* C27: the encoding of strings round-trips and keeps the absent string
\* apart from the empty one: NULL is written as the sentinel length alone
\* and read back as NULL, a string of n >= 0 bytes is written as the 64-bit
\* length n and exactly n bytes and read back as a non-NULL string of the
\* same bytes.
C27_StringRoundTrip ==
    /\ trace = Header \o Cat([i \in DOMAIN str_written |-> ExpectedBytes(str_written[i])])
    /\ \A i \in DOMAIN str_read : str_read[i] = str_written[i]
    /\ ~sread.fail
    /\ Len(str_read) = Len(str_written) => sread.pos = Len(trace)

\* NULL and the empty string were written one after the other and read back
C27_Witness ==
    /\ str_written = <<NullStr, Str(<<>>)>>
    /\ str_read = str_written
    /\ Len(trace) = Len(Header) + 16

(***************************************************************************)
(* Claims about the name of the trace file, checked under SpecName.        *)
(***************************************************************************)
Exists(n) == n \in DOMAIN files /\ files[n] # "absent"

\* C28: whatever files are there, the name chosen is <procname>.altrace if
\* no file has that name, else <procname>.<N>.altrace for the smallest
\* N >= 1 such that no file has that name; it never is the name of a file
\* that is there.
C28_SmallestFreeName ==
    chosen # -1 => (~Exists(chosen) /\ \A n \in 0..(chosen - 1) : Exists(n))

(***************************************************************************)
(* Claims about the hash buckets, checked under SpecBucket.                *)
(***************************************************************************)
RECURSIVE ChainFrom(_, _)
\* the addresses reached from buf along hash_next, in at most n hops; the
\* address of a freed record is reached and not followed
ChainFrom(buf, n) ==
    IF buf = NULLBUF \/ n = 0 THEN <<>>
    ELSE <<buf>> \o (IF buf \in DOMAIN bufs THEN ChainFrom(bufs[buf].hash_next, n - 1)
                    ELSE <<>>)

Chain(h) == ChainFrom(wrapped_buffer_hash[h], Cardinality(BufferPool) + 1)

ChainNames(h) == [i \in DOMAIN Chain(h) |-> bufs[Chain(h)[i]].name]

Reverse(q) == [i \in DOMAIN q |-> q[Len(q) + 1 - i]]

\* the names of bucket h that the last call generated, last one first
NewIn(h) == Reverse(SelectSeq(blast.names, LAMBDA n : hash_alname(n) = h))

\* the linkage of the buckets when no error of an earlier call is pending:
\* every live record is in exactly the bucket name & 0xFF, each bucket is a
\* well-formed doubly linked list, new records are at the head, and lookup
\* finds the live names
BucketsWellFormed ==
    /\ \A h \in Buckets :
           /\ \A i \in DOMAIN Chain(h) : Chain(h)[i] \in DOMAIN bufs
           /\ \A i, j \in DOMAIN Chain(h) : Chain(h)[i] = Chain(h)[j] => i = j
           /\ wrapped_buffer_hash[h] # NULLBUF =>
                  bufs[wrapped_buffer_hash[h]].hash_prev = NULLBUF
           /\ blast.name = "alGenBuffers" /\ blast.ok =>
                  /\ Len(NewIn(h)) <= Len(Chain(h))
                  /\ SubSeq(ChainNames(h), 1, Len(NewIn(h))) = NewIn(h)
    /\ \A x \in DOMAIN bufs :
           /\ {h \in Buckets : \E i \in DOMAIN Chain(h) : Chain(h)[i] = x}
                  = {hash_alname(bufs[x].name)}
           /\ bufs[x].hash_next # NULLBUF =>
                  /\ bufs[x].hash_next \in DOMAIN bufs
                  /\ bufs[bufs[x].hash_next].hash_prev = x
           /\ bufs[x].hash_prev # NULLBUF =>
                  /\ bufs[x].hash_prev \in DOMAIN bufs
                  /\ bufs[bufs[x].hash_prev].hash_next = x
    /\ \A n \in BufferNames \cup {0} :
           LET buf == buffer_wrapped_lookup(B, n)
           IN  /\ buf # NULLBUF <=> n \in realbufs
               /\ buf # NULLBUF => bufs[buf].name = n

\* a bucket held three records and the one in the middle was deleted
MiddleDeleted ==
    /\ blast = [name |-> "alDeleteBuffers", names |-> <<257>>, ok |-> TRUE]
    /\ ChainNames(1) = <<513, 1>>
    /\ realbufs = {1, 513}

(***************************************************************************)
(* Claims about the trace scope, checked under SpecScope.                  *)
(***************************************************************************)
\* the events of that name among the first n decoded
Decoded(name, n) == Cardinality({i \in 1..n : scope_visits[i][1] = name})

\* C34: the trace-scope depth in the caller-info of a call event is the
\* number of push-scope events minus the number of pop-scope events
\* decoded before it (the visitor of a push sees the depth before the
\* increment, the visitor of a pop the depth after the decrement), and the
\* depth never wraps below zero, in a trace with more pops than pushes
\* either.
C34_ScopeDepth ==
    \A i \in DOMAIN scope_visits :
        LET pushed == Decoded("alTracePushScope", i - 1)
            popped == Decoded("alTracePopScope", i)
        IN  /\ scope_visits[i][2] >= 0
            /\ scope_visits[i][2] <= pushed
            /\ pushed >= popped => scope_visits[i][2] = pushed - popped

(***************************************************************************)
(* Claims about a second playback, checked under SpecAgain.                *)
(***************************************************************************)
\* C40: a second call of process_tracelog on the same trace file gives the
\* visitors the same sequence of callbacks with the same arguments as the
\* first, the mapped thread ids among them.
C40_SecondRunSame ==
    pstate = "done" =>
        \A i \in DOMAIN earlier_runs : earlier_runs[i] = ThisRun

(***************************************************************************)
(* Claims settled under Spec.                                              *)
(***************************************************************************)
\* the step is a wrapped call
IsCall == nops' # nops

\* the errors the call of this step reported for device d in
\* alc-error-triggered events
ALCErrorsSeen(d) ==
    {events'[i][3] : i \in {j \in 1..Len(events') :
                               events'[j][1] = "ALCERROR_TRIGGERED" /\ events'[j][2] = d}}

\* the errors the call of this step reported in al-error-triggered events
ALErrorsSeen ==
    {events'[i][2] : i \in {j \in 1..Len(events') : events'[j][1] = "ALERROR_TRIGGERED"}}

\* what the latch holds once the body of this step's call has run
DeviceLatchHeld(d) ==
    IF IsCall /\ last'.name = "alcGetError"
       /\ last'.args[1] = (IF d = NullDevice THEN NULL ELSE d)
    THEN ALC_NO_ERROR
    ELSE devs[d].errorlatch

ContextLatchHeld(c) ==
    IF IsCall /\ last'.name = "alGetError" /\ current_context = c
    THEN AL_NO_ERROR
    ELSE ctxs[c].errorlatch

LatchStep(held, latch, seen) ==
    /\ held # 0 => latch = held
    /\ held = 0 /\ seen = {} => latch = 0
    /\ held = 0 /\ seen # {} => latch \in seen

\* C5: between two retrievals the latch of a device or a context holds the
\* first error a post-call check observed: a step that is no retrieval
\* leaves a non-zero latch alone, whatever error its check observed and
\* reported, and an empty latch takes the error the check reported.
C5_LatchHoldsFirstError ==
    [][/\ \A d \in DOMAIN devs \cap DOMAIN devs' :
             LatchStep(DeviceLatchHeld(d), devs'[d].errorlatch,
                       IF IsCall THEN ALCErrorsSeen(d) ELSE {})
       /\ \A c \in DOMAIN ctxs \cap DOMAIN ctxs' :
             LatchStep(ContextLatchHeld(c), ctxs'[c].errorlatch,
                       IF IsCall /\ c = current_context' THEN ALErrorsSeen ELSE {})]_vars

\* a latch holds one error while the latest call reported another one for
\* the same device or context
C5_Witness ==
    \/ \E d \in DOMAIN devs : \E i \in 1..Len(events) :
          /\ events[i][1] = "ALCERROR_TRIGGERED"
          /\ events[i][2] = d
          /\ devs[d].errorlatch \notin {ALC_NO_ERROR, events[i][3]}
    \/ \E i \in 1..Len(events) :
          /\ events[i][1] = "ALERROR_TRIGGERED"
          /\ current_context \in DOMAIN ctxs
          /\ ctxs[current_context].errorlatch \notin {AL_NO_ERROR, events[i][2]}

\* C6: alGetError and alcGetError return the latched error and reset the
\* latch, so that of two consecutive retrievals on the same device or
\* context, with no other wrapped call between them, the second returns
\* NO_ERROR.
C6_SecondRetrievalIsNoError ==
    [][/\ IsCall /\ last'.name = "alcGetError" =>
             last'.ret = devs[IF last'.args[1] # NULL THEN last'.args[1]
                              ELSE NullDevice].errorlatch
       /\ IsCall /\ last'.name = "alGetError" =>
             last'.ret = (IF current_context = NULL THEN null_context_errorlatch
                          ELSE ctxs[current_context].errorlatch)
       /\ IsCall /\ last.name = "alcGetError" /\ last'.name = "alcGetError"
             /\ last'.args = last.args => last'.ret = ALC_NO_ERROR
       /\ IsCall /\ last.name = "alGetError" /\ last'.name = "alGetError" =>
             last'.ret = AL_NO_ERROR]_vars

\* the real context named by the context wrapper c outlives this step
RealContextSurvives(c) == ctxs[c].ctx \in DOMAIN real'.ctxdev

\* the lists of devices and contexts
Registry ==
    <<[d \in DOMAIN devs |-> <<devs[d].prev, devs[d].next, devs[d].contexts>>],
      [c \in DOMAIN ctxs |-> <<ctxs[c].prev, ctxs[c].next>>]>>

\* C9: a close or destroy call unlinks and frees the shadow record only if
\* the real call succeeded: when alcCloseDevice's real call returned
\* ALC_FALSE, or alcDestroyContext's real call failed and left the real
\* context alive, the device list and the context lists are unchanged.
C9_FreedOnlyOnSuccess ==
    [][/\ IsCall /\ last'.name = "alcCloseDevice" /\ last'.ret = FALSE =>
             Registry' = Registry
       /\ IsCall /\ last'.name = "alcDestroyContext" /\ last'.args[1] \in DOMAIN ctxs
             /\ RealContextSurvives(last'.args[1]) => Registry' = Registry]_vars

\* C10: what a wrapper returns to the application is what it recorded in
\* the trace as the return value of the call; alcOpenDevice and
\* alcCreateContext record and return NULL when the real call returned NULL.
C10_ReturnsWhatItRecorded == last.ret = last.rec

\* the context-state-changed-string events in the tail of the call of
\* this step
StringEvents == SelectSeq(events', LAMBDA e : e[1] = "CONTEXT_STATE_CHANGED_STRING")

\* the call of this step is an alcMakeContextCurrent that made context c,
\* whose static state had not been fetched, current
FirstMadeCurrent(c) ==
    /\ last'.name = "alcMakeContextCurrent"
    /\ last'.args = <<c>>
    /\ last'.ret = TRUE
    /\ ~ctxs[c].checked_static_state

\* C18: a wrapped call writes context-state-changed-string events only if
\* it is a successful alcMakeContextCurrent of a context whose static state
\* was never fetched, and then it writes the four of that context (version,
\* renderer, vendor, extensions) and marks the context; a context starts
\* unmarked and no other call marks or unmarks one: four events per
\* context, once
C18_StaticStateOnce ==
    [][IsCall =>
         /\ \A c \in DOMAIN ctxs :
                FirstMadeCurrent(c)
                    => /\ StringEvents = [i \in 1..4 |->
                              <<"CONTEXT_STATE_CHANGED_STRING", c, StaticStrings[i]>>]
                       /\ ctxs'[c].checked_static_state
         /\ (\A c \in DOMAIN ctxs : ~FirstMadeCurrent(c))
                => /\ StringEvents = <<>>
                   /\ \A c \in DOMAIN ctxs \cap DOMAIN ctxs' :
                          ctxs'[c].checked_static_state = ctxs[c].checked_static_state
         /\ \A c \in DOMAIN ctxs' \ DOMAIN ctxs : ~ctxs'[c].checked_static_state]_vars

\* a context whose static state was fetched has been made current again:
\* the call succeeded and wrote no context-state-changed-string event
C18_Witness ==
    /\ last.name = "alcMakeContextCurrent"
    /\ last.ret = TRUE
    /\ last.args[1] \in DOMAIN ctxs
    /\ nops >= 4
    /\ \A i \in 1..Len(events) : events[i][1] # "CONTEXT_STATE_CHANGED_STRING"

\* the device-state-changed-bool events about device d in the tail of the
\* call of this step
BoolEvents(d) ==
    SelectSeq(events', LAMBDA e : e[1] = "DEVICE_STATE_CHANGED_BOOL" /\ e[2] = d)

\* C19: for every open device that has the disconnect extension, the tail
\* of a wrapped call writes one device-state-changed-bool event with the
\* real value of CONNECTED if that value differs from the one last
\* reported, and none otherwise; the value reported is remembered
C19_OneEventPerChange ==
    [][IsCall =>
         \A d \in (DOMAIN devs \cap DOMAIN devs') \ {NullDevice} :
             devs[d].supports_disconnect_ext
                 => /\ devs'[d].connected = (devs[d].device \in real'.connected)
                    /\ BoolEvents(d) =
                           IF devs[d].connected # (devs[d].device \in real'.connected)
                           THEN <<<<"DEVICE_STATE_CHANGED_BOOL", d, ALC_CONNECTED,
                                    devs[d].device \in real'.connected>>>>
                           ELSE <<>>]_vars

\* a device was disconnected, a call has reported it, and the latest call
\* wrote no device-state-changed-bool event
C19_Witness ==
    \E d \in DOMAIN devs \ {NullDevice} :
        /\ devs[d].supports_disconnect_ext
        /\ devs[d].device \notin real.connected
        /\ ~devs[d].connected
        /\ \A i \in 1..Len(events) : events[i][1] # "DEVICE_STATE_CHANGED_BOOL"

RECURSIVE ContextsFrom(_, _)
\* the context pointers reached from c along next, in at most n hops; a
\* pointer to a freed record is reached and not followed
ContextsFrom(c, n) ==
    IF c = NULL \/ n = 0 THEN {}
    ELSE {c} \cup (IF c \in DOMAIN ctxs THEN ContextsFrom(ctxs[c].next, n - 1) ELSE {})

ContextList(d) == ContextsFrom(devs[d].contexts, Cardinality(ContextPool))

\* every live context is in the list of the live device it was created on
\* and of no other, and the lists hold live contexts only
ContextsLinked ==
    /\ \A c \in DOMAIN ctxs :
           /\ ctxs[c].device \in DOMAIN devs \ {NullDevice}
           /\ {d \in DOMAIN devs : c \in ContextList(d)} = {ctxs[c].device}
    /\ \A d \in DOMAIN devs : ContextList(d) \subseteq DOMAIN ctxs

\* the call of this step is a successful alcCloseDevice(d)
Closed(d) == IsCall /\ last'.name = "alcCloseDevice" /\ last'.args = <<d>> /\ last'.ret = TRUE

\* after the step current_context is NULL or a live context of a live
\* device other than d
CurrentNotOn(d) ==
    current_context' # NULL =>
        /\ current_context' \in DOMAIN ctxs'
        /\ ctxs'[current_context'].device \in DOMAIN devs' \ {d}

\* C31: after any sequence of open, create, destroy and close calls every
\* live context record is linked into the context list of exactly one
\* device, the live device it was created on; a destroyed context is in no
\* list; and after a successful alcCloseDevice(d) no live context record,
\* and not current_context, refers to d.
C31_ContextOnItsDevice ==
    /\ []ContextsLinked
    /\ [][\A d \in DOMAIN devs : Closed(d) =>
             /\ \A c \in DOMAIN ctxs' : ctxs'[c].device # d
             /\ CurrentNotOn(d)]_vars

\* C38: after every wrapped call current_context is NULL or a live context
\* record that is linked into the context list of a live device; after
\* alcDestroyContext(c) it is not c, and after a successful
\* alcCloseDevice(d) it is no context of d.
C38_CurrentContextLive ==
    current_context # NULL =>
        /\ current_context \in DOMAIN ctxs
        /\ \E d \in DOMAIN devs \ {NullDevice} : current_context \in ContextList(d)

\* alcMakeContextCurrent has returned ALC_FALSE
MakeCurrentFailed == IsCall /\ last'.name = "alcMakeContextCurrent" /\ last'.ret = FALSE

\* current_context and every field of every context wrapper, the
\* static-state flag among them, are what they were
ContextsKept ==
    /\ current_context' = current_context
    /\ DOMAIN ctxs' = DOMAIN ctxs
    /\ \A c \in DOMAIN ctxs : ctxs'[c] = ctxs[c]

ALCErrorEvents(ev) == SelectSeq(ev, LAMBDA e : e[1] = "ALCERROR_TRIGGERED")

\* the events the polling pass of a call's tail writes
PollingEvents ==
    {"DEVICE_STATE_CHANGED_BOOL", "DEVICE_STATE_CHANGED_INT", "SOURCE_STATE_CHANGED_ENUM"}

\* C39: alcMakeContextCurrent changes current_context only when the real
\* call returns true.  When it returns false, current_context, the
\* static-state flag and the shadowed attributes of every context are
\* unchanged, and after the call event the call writes at most one
\* alc-error-triggered event and the state-changed events of the polling
\* pass that ends every call, nothing else.
C39_FailedMakeCurrentKeeps ==
    [][/\ IsCall /\ last'.name = "alcMakeContextCurrent"
          /\ current_context' # current_context => last'.ret = TRUE
       /\ MakeCurrentFailed =>
             /\ ContextsKept
             /\ Len(ALCErrorEvents(events')) <= 1
             /\ \A i \in DOMAIN events' :
                    events'[i][1] \in {"ALCERROR_TRIGGERED"} \cup PollingEvents]_vars

\* C39 as the claim has it: a failed alcMakeContextCurrent writes the call
\* event and a possible alc-error-triggered event only.
C39_OnlyErrorEvent ==
    [][MakeCurrentFailed =>
          /\ ContextsKept
          /\ Len(events') <= 1
          /\ \A i \in DOMAIN events' : events'[i][1] = "ALCERROR_TRIGGERED"]_vars

\* making a context current has failed while another one was current, and
\* the error of the real call was recorded
C39_Witness ==
    /\ last.name = "alcMakeContextCurrent"
    /\ last.ret = FALSE
    /\ current_context \in DOMAIN ctxs \ {last.args[1]}
    /\ ALCErrorEvents(events) # <<>>

(***************************************************************************)
(* Claims settled under SpecTwo.                                           *)
(***************************************************************************)
\* C32: after any sequence of gen and delete calls every live record is in
\* the bucket of its context and lookup by name returns the record iff the
\* name was generated and not yet successfully deleted: while no call is
\* in progress, the current context holds a wrapper for a name exactly when
\* the real library holds a source of that name in that context.
C32_LookupFindsLive ==
    pass = Idle /\ current_context # NULL =>
        \A name \in SourceNames :
            source_wrapped_lookup(M(events, polled), name) # NULLSRC
                <=> <<ctxs[current_context].ctx, name>> \in DOMAIN real.src

\* the al-error-triggered events of the call of this step
ALErrorEvents(ev) == SelectSeq(ev, LAMBDA e : e[1] = "ALERROR_TRIGGERED")

\* the error the real library holds for the current context
RealPending == IF real.current = NULL THEN AL_NO_ERROR ELSE real.alerr[real.current]

\* the call of this step is an AL call made with a context current
ALCallInContext ==
    /\ IsCall
    /\ last'.name \notin {"alcMakeContextCurrent"}
    /\ current_context # NULL

\* the call of this step is alDeleteSources of a name that is no source
DeletesNoSource ==
    /\ last'.name = "alDeleteSources"
    /\ ~RealSourceValid(real, last'.args[2])

\* C33: each non-zero error the real AL reports is surfaced by exactly one
\* al-error-triggered event, also in alDeleteSources, which checks twice,
\* and is latched only into the context that is current when it is
\* observed: the latch of no other context changes, and what the call
\* returns to the application is what it would return without the error.
C33_OneEventPerALError ==
    [][/\ ALCallInContext =>
             /\ Len(ALErrorEvents(events')) <= 1
             /\ RealPending # AL_NO_ERROR =>
                    ALErrorEvents(events') = <<<<"ALERROR_TRIGGERED", RealPending>>>>
             /\ RealPending = AL_NO_ERROR /\ DeletesNoSource =>
                    ALErrorEvents(events') = <<<<"ALERROR_TRIGGERED", AL_INVALID_NAME>>>>
             /\ real'.alerr[real'.current] = AL_NO_ERROR
             /\ ctxs'[current_context].errorlatch =
                    (IF ALErrorEvents(events') = <<>> THEN ContextLatchHeld(current_context)
                     ELSE LatchFirst(ContextLatchHeld(current_context),
                                     ALErrorEvents(events')[1][2]))
             /\ last'.ret = last'.rec
       /\ ~IsCall => ALErrorEvents(events') = ALErrorEvents(events)
       /\ \A c \in DOMAIN ctxs \ {current_context} :
             c \in DOMAIN ctxs' /\ ctxs'[c].errorlatch = ctxs[c].errorlatch
       /\ null_context_errorlatch' = null_context_errorlatch]_vars

\* alDeleteSources of a name that is no source of the current context
\* reported AL_INVALID_NAME once and latched it into the current context,
\* while the other context holds no error
C33_Witness ==
    /\ pass = Idle
    /\ last.name = "alDeleteSources"
    /\ <<ctxs["ctx2"].ctx, last.args[2]>> \notin DOMAIN real.src
    /\ current_context = "ctx2"
    /\ ALErrorEvents(events) = <<<<"ALERROR_TRIGGERED", AL_INVALID_NAME>>>>
    /\ ctxs["ctx2"].errorlatch = AL_INVALID_NAME
    /\ ctxs["ctx1"].errorlatch = AL_NO_ERROR

(***************************************************************************)
(* Claims settled under SpecSrc.                                           *)
(***************************************************************************)
RECURSIVE PlaylistFrom(_, _)
\* the sources reached from src along playlist_next, in at most n hops
PlaylistFrom(src, n) ==
    IF src = NULLSRC \/ n = 0 THEN {}
    ELSE {src} \cup PlaylistFrom(srcs[src].playlist_next, n - 1)

Playlist(c) == PlaylistFrom(ctxs[c].playlist, Cardinality(DOMAIN srcs))

\* C7: within one polling pass each source of a playlist is polled at most
\* once, and once a pass is over the playlist holds only sources the pass
\* observed PLAYING, whatever Play, Pause, Stop, Rewind and Delete calls
\* were made, Play on the only member of the playlist included.
C7_PolledOncePerPass ==
    /\ \A i, j \in 1..Len(polled) : polled[i] = polled[j] => i = j
    /\ pass = Idle => \A c \in DOMAIN ctxs : \A s \in Playlist(c) : srcs[s].state = AL_PLAYING

\* C8: a source started by Play is polled by the tail of every later call
\* until a pass observes it non-PLAYING: while no call is in progress, a
\* source whose last observed state is PLAYING is on the playlist of its
\* context, so that the next tail reports its STOPPED, whatever calls were
\* made in between, alDeleteSources on idle sources included.
C8_PlayingSourceStaysPolled ==
    pass = Idle =>
        \A c \in DOMAIN ctxs : \A s \in DOMAIN srcs :
            s[1] = c /\ srcs[s].state = AL_PLAYING => s \in Playlist(c)

\* C30: a state-changed event for a property is emitted exactly when the
\* value queried differs from the shadow, and the shadow is then the value
\* emitted: after every check the shadow holds the value queried last (for
\* AL_LOOPING, that value as a boolean), and two consecutive state-changed
\* events for the same property never carry the same value.
EventsOf(p) == SelectSeq(det.emitted, LAMBDA e : e[1] = p)

AsShadowed(p, v) == IF p = "AL_LOOPING" THEN (IF v # 0 THEN 1 ELSE 0) ELSE v

C30_EventPerDifference ==
    \A p \in SourceProps :
        /\ det.queried[p] # <<>> => det.shadow[p] = AsShadowed(p, det.queried[p][1])
        /\ \A i \in 1..(Len(EventsOf(p)) - 1) : EventsOf(p)[i][2] # EventsOf(p)[i + 1][2]
        /\ EventsOf(p) # <<>> => det.shadow[p] = EventsOf(p)[Len(EventsOf(p))][2]

\* C29: while no wrapped call is in progress (the API mutex is free), every
\* source linked into the playlist of a context has the cached state
\* PLAYING: a source whose cached state is INITIAL, PAUSED or STOPPED is in
\* no playlist.
C29_PlaylistHoldsPlaying ==
    pass = Idle =>
        \A s \in DOMAIN srcs :
            srcs[s].state \in {AL_INITIAL, AL_PAUSED, AL_STOPPED} =>
                \A c \in DOMAIN ctxs : s \notin Playlist(c)

\* the polling pass of the latest call has taken a source that stopped out
\* of a playlist in which another source still plays
C29_Witness ==
    /\ pass = Idle
    /\ \E c \in DOMAIN ctxs : \E s, p \in DOMAIN srcs :
           /\ srcs[s].state = AL_STOPPED
           /\ s \notin Playlist(c)
           /\ \E i \in DOMAIN polled : polled[i] = srcs[s].name
           /\ p \in Playlist(c)
           /\ srcs[p].state = AL_PLAYING

RECURSIVE MembersFrom(_, _, _)
\* the sources met from src along playlist_next in the records ss, in at
\* most n hops, in the order the polling loop meets them
MembersFrom(ss, src, n) ==
    IF src = NULLSRC \/ n = 0 \/ src \notin DOMAIN ss THEN <<>>
    ELSE <<src>> \o MembersFrom(ss, ss[src].playlist_next, n - 1)

\* one hop more than there are sources: a cycle shows as a repetition
Members(cs, ss, c) == MembersFrom(ss, cs[c].playlist, Cardinality(DOMAIN ss) + 1)

Among(q) == {q[i] : i \in DOMAIN q}

PlaylistWellFormed(c) ==
    LET q == Members(ctxs, srcs, c)
    IN  /\ \A i, j \in DOMAIN q : q[i] = q[j] => i = j
        /\ \A i \in DOMAIN q : /\ q[i] \in DOMAIN srcs
                               /\ q[i][1] = c
                               /\ srcs[q[i]].playlist_prev = IF i = 1 THEN NULLSRC ELSE q[i - 1]

\* alSourcePlay(name) was called with the source name in the playlist of the
\* current context
PlayedMember ==
    /\ IsCall
    /\ last'.name = "alSourcePlay"
    /\ current_context # NULL
    /\ <<current_context, last'.args[1]>> \in Among(Members(ctxs, srcs, current_context))

PlaylistsUnchanged ==
    /\ \A c \in DOMAIN ctxs : c \in DOMAIN ctxs' /\ ctxs'[c].playlist = ctxs[c].playlist
    /\ \A x \in DOMAIN srcs :
          /\ x \in DOMAIN srcs'
          /\ srcs'[x].playlist_next = srcs[x].playlist_next
          /\ srcs'[x].playlist_prev = srcs[x].playlist_prev

\* C35: the playlist of every context is a finite doubly-linked list without
\* a cycle in which a source occurs at most once, and alSourcePlay on a
\* source that is in the playlist already, as its only member, its head or
\* further down, leaves the playlist as it was.
C35_PlaylistAcyclic ==
    /\ [](\A c \in DOMAIN ctxs : PlaylistWellFormed(c))
    /\ [][PlayedMember => PlaylistsUnchanged]_vars

\* the sources the polling pass at position ps has yet to visit in the
\* playlist it is in
ToVisit(ss, ps) == Among(MembersFrom(ss, ps.src, Cardinality(DOMAIN ss) + 1))

\* one iteration of the loop over a playlist
Polls == pass.src # NULLSRC /\ Len(polled') = Len(polled) + 1

\* C36: every polling pass terminates, a source that stays PLAYING for ever
\* or not: each iteration of the loop over a playlist leaves fewer sources
\* to visit in that playlist than it found (the source it polled is not
\* among them), so that check_al_async_states visits finitely many sources
\* and returns.
C36_PassTerminates ==
    [][Polls => /\ pass.src \notin ToVisit(srcs', pass')
                /\ pass'.ctx = pass.ctx /\ pass'.src # NULLSRC =>
                       /\ ToVisit(srcs', pass') \subseteq ToVisit(srcs, pass)
                       /\ ToVisit(srcs', pass') # ToVisit(srcs, pass)]_vars

\* alDeleteSources(1, &name) has deleted the source of that name
Deleted(x) ==
    /\ IsCall
    /\ last'.name = "alDeleteSources"
    /\ current_context # NULL
    /\ x = <<current_context, last'.args[2]>>
    /\ x \in DOMAIN srcs
    /\ x \notin DOMAIN srcs'

\* C37: a successful alDeleteSources takes out of the playlist of the
\* current context the deleted sources that were in it and nothing else:
\* deleting a source that is not in the playlist leaves the head and the
\* links of the others as they were, deleting a member leaves the other
\* members linked in their order.
C37_DeleteKeepsOthers ==
    [][\A x \in DOMAIN srcs :
          Deleted(x) =>
              \A c \in DOMAIN ctxs :
                  Members(ctxs', srcs', c)
                      = SelectSeq(Members(ctxs, srcs, c), LAMBDA y : y # x)]_vars

====
